---- MODULE Spec2Model ----
(***************************************************************************)
(* A model of dynamic_baml: DictToBAMLGenerator (schema_generator.py), the *)
(* compiler from a nested dictionary to BAML class/enum source text;       *)
(* BAMLExecutor (baml_executor.py), which reads schema text back and       *)
(* parses a response into a dictionary; and call_with_schema (core.py),    *)
(* which generates a schema, builds a temporary BAML project, runs         *)
(* baml-cli and calls the generated function.                              *)
(* generate_schema is also run on dictionaries that contain themselves     *)
(* (SpecHeap), and call_with_schema in two threads of one process          *)
(* (SpecThreads).                                                          *)
(*                                                                         *)
(* Python strings are sequences of one-character strings, so that title(), *)
(* upper(), replace(), the regular expressions, json.loads and the text    *)
(* the generator builds are computed character by character.  Python       *)
(* values are records of one shape.                                        *)
(***************************************************************************)
EXTENDS Naturals, Integers, Sequences, FiniteSets, TLC

(***************************************************************************)
(* Characters and the str methods the generator calls.                     *)
(***************************************************************************)
LowerLetters ==
  <<"a","b","c","d","e","f","g","h","i","j","k","l","m",
    "n","o","p","q","r","s","t","u","v","w","x","y","z">>

UpperLetters ==
  <<"A","B","C","D","E","F","G","H","I","J","K","L","M",
    "N","O","P","Q","R","S","T","U","V","W","X","Y","Z">>

Digits == {"0","1","2","3","4","5","6","7","8","9"}

IsLower(c) == \E i \in DOMAIN LowerLetters : LowerLetters[i] = c

IsUpper(c) == \E i \in DOMAIN UpperLetters : UpperLetters[i] = c

IsCased(c) == IsLower(c) \/ IsUpper(c)

IsAlnum(c) == IsCased(c) \/ c \in Digits

upper_char(c) ==
  IF IsLower(c)
  THEN UpperLetters[CHOOSE i \in DOMAIN LowerLetters : LowerLetters[i] = c]
  ELSE c

lower_char(c) ==
  IF IsUpper(c)
  THEN LowerLetters[CHOOSE i \in DOMAIN UpperLetters : UpperLetters[i] = c]
  ELSE c

\* str.upper()
upper(s) == IF s = <<>> THEN <<>> ELSE [i \in 1..Len(s) |-> upper_char(s[i])]

\* str.replace(old, new) for the one-character patterns the generator uses
replace(s, old, new) ==
  IF s = <<>> THEN <<>>
  ELSE [i \in 1..Len(s) |-> IF s[i] = old THEN new ELSE s[i]]

\* str.title(): a cased character is uppercased when the character before it
\* is not cased, and lowercased when it is.
title(s) ==
  IF s = <<>> THEN <<>>
  ELSE [i \in 1..Len(s) |->
          IF i > 1 /\ IsCased(s[i-1]) THEN lower_char(s[i]) ELSE upper_char(s[i])]

RECURSIVE join(_, _)
\* sep.join(parts)
join(sep, parts) ==
  IF parts = <<>> THEN <<>>
  ELSE IF Len(parts) = 1 THEN parts[1]
  ELSE parts[1] \o sep \o join(sep, Tail(parts))

\* str.startswith, str.endswith, str.find (from 1, 0 when absent), str.split
StartsWith(s, p) == Len(s) >= Len(p) /\ SubSeq(s, 1, Len(p)) = p

EndsWith(s, p) == Len(s) >= Len(p) /\ SubSeq(s, Len(s) - Len(p) + 1, Len(s)) = p

\* index of the first c in s, 0 when there is none
FirstIndex(s, c) ==
  IF \E i \in DOMAIN s : s[i] = c
  THEN CHOOSE i \in DOMAIN s : s[i] = c /\ \A j \in 1..(i - 1) : s[j] # c
  ELSE 0

RECURSIVE split(_, _)
split(s, c) ==
  LET i == FirstIndex(s, c)
  IN  IF i = 0 THEN <<s>>
      ELSE <<SubSeq(s, 1, i - 1)>> \o split(SubSeq(s, i + 1, Len(s)), c)

(***************************************************************************)
(* String literals of the source.                                          *)
(***************************************************************************)
NL == <<"\n">>

S_string == <<"s","t","r","i","n","g">>

S_str == <<"s","t","r">>

S_int == <<"i","n","t">>

S_integer == <<"i","n","t","e","g","e","r">>

S_float == <<"f","l","o","a","t">>

S_double == <<"d","o","u","b","l","e">>

S_bool == <<"b","o","o","l">>

S_boolean == <<"b","o","o","l","e","a","n">>

S_enum == <<"e","n","u","m">>

S_type == <<"t","y","p","e">>

S_optional == <<"o","p","t","i","o","n","a","l">>

S_values == <<"v","a","l","u","e","s">>

S_Class == <<"C","l","a","s","s">>

S_Enum == <<"E","n","u","m">>

S_class_kw == <<"c","l","a","s","s">>

(***************************************************************************)
(* Python values.  k is the runtime type; s the characters of a str; n the *)
(* number of an int or bool; items the entries of a dict in insertion      *)
(* order, or the elements of a list (with empty keys).                     *)
(***************************************************************************)
PyVal(k, s, n, items) == [k |-> k, s |-> s, n |-> n, items |-> items]

PyNone == PyVal("NoneType", <<>>, 0, <<>>)

PyStr(s) == PyVal("str", s, 0, <<>>)

PyInt(n) == PyVal("int", <<>>, n, <<>>)

PyBool(b) == PyVal("bool", <<>>, IF b THEN 1 ELSE 0, <<>>)

Item(key, val) == [key |-> key, val |-> val]

PyList(elems) ==
  PyVal("list", <<>>, 0,
        IF elems = <<>> THEN <<>>
        ELSE [i \in 1..Len(elems) |-> Item(<<>>, elems[i])])

PyDict(items) == PyVal("dict", <<>>, 0, items)

isinstance(v, t) == v.k = t

\* key in d
contains(d, key) == \E i \in DOMAIN d.items : d.items[i].key = key

\* d.get(key, default); d[key] when the key is present
get(d, key, default) ==
  IF contains(d, key)
  THEN d.items[CHOOSE i \in DOMAIN d.items : d.items[i].key = key].val
  ELSE default

\* truth value of v, as in `if optional:`
truth(v) ==
  CASE v.k = "NoneType" -> FALSE
    [] v.k = "str" -> v.s # <<>>
    [] v.k \in {"int", "bool"} -> v.n # 0
    [] v.k = "float" ->
         \E i \in DOMAIN v.s :
           /\ v.s[i] \notin {"0", "-", ".", "e", "E"}
           /\ \A j \in 1..(i - 1) : v.s[j] \notin {"e", "E"}
    [] OTHER -> v.items # <<>>

(***************************************************************************)
(* DictToBAMLGenerator.  A helper's result carries the exception type that *)
(* left it ("" when it returned), its return value and the instance's      *)
(* generated_classes afterwards.                                           *)
(***************************************************************************)
\* _map_basic_type written as type_mapping[type_str]: a string that is not a
\* key raises KeyError
map_basic_type_subscript(type_str) ==
  IF type_str.k \in {"list", "dict"} THEN [exc |-> "TypeError", type |-> <<>>]
  ELSE IF type_str.k = "str"
          /\ type_str.s \in {S_string, S_str, S_int, S_integer, S_float, S_double,
                              S_bool, S_boolean}
  THEN [exc |-> "",
        type |-> CASE type_str.s \in {S_string, S_str} -> S_string
                   [] type_str.s \in {S_int, S_integer} -> S_int
                   [] type_str.s \in {S_float, S_double} -> S_float
                   [] OTHER -> S_bool]
  ELSE [exc |-> "KeyError", type |-> <<>>]

\* _map_basic_type: type_mapping.get(type_str, "string"); dict.get hashes
\* its key, so a list or dict raises TypeError
map_basic_type(type_str) ==
  IF type_str.k \in {"list", "dict"} THEN [exc |-> "TypeError", type |-> <<>>]
  ELSE [exc |-> "",
        type |->
          IF type_str.k # "str" THEN S_string
          ELSE CASE type_str.s = S_string -> S_string
                 [] type_str.s = S_str -> S_string
                 [] type_str.s = S_int -> S_int
                 [] type_str.s = S_integer -> S_int
                 [] type_str.s = S_float -> S_float
                 [] type_str.s = S_double -> S_float
                 [] type_str.s = S_bool -> S_bool
                 [] type_str.s = S_boolean -> S_bool
                 [] OTHER -> S_string]

\* _parse_field_definition: (type_string, is_optional) or an exception
parse_field_definition(field_def, field_name) ==
  LET marked == isinstance(field_def, "dict") /\ contains(field_def, S_optional)
      optional == IF marked
                  THEN truth(get(field_def, S_optional, PyBool(FALSE)))
                  ELSE FALSE
      fd == IF marked /\ contains(field_def, S_type)
            THEN get(field_def, S_type, PyNone)
            ELSE field_def
  IN  IF isinstance(fd, "dict") /\ get(fd, S_type, PyNone) = PyStr(S_enum)
      THEN [exc |-> "", type |-> title(field_name) \o S_Enum, optional |-> optional]
      ELSE IF isinstance(fd, "str")
      THEN LET m == map_basic_type(fd)
           IN  [exc |-> m.exc, type |-> m.type, optional |-> optional]
      ELSE IF isinstance(fd, "list") /\ Len(fd.items) = 1
      THEN LET m == map_basic_type(fd.items[1].val)
           IN  [exc |-> m.exc,
                type |-> IF m.exc = "" THEN m.type \o <<"[", "]">> ELSE <<>>,
                optional |-> optional]
      ELSE IF isinstance(fd, "dict")
      THEN [exc |-> "", type |-> title(field_name) \o S_Class, optional |-> optional]
      ELSE [exc |-> "SchemaGenerationError", type |-> <<>>, optional |-> optional]

\* what `for value in values` iterates over: the elements of a list, the
\* characters of a str, the keys of a dict; anything else is not iterable
iterable(v) == v.k \in {"list", "str", "dict"}

iterate(v) ==
  CASE v.k = "list" ->
         IF v.items = <<>> THEN <<>> ELSE [i \in 1..Len(v.items) |-> v.items[i].val]
    [] v.k = "str" ->
         IF v.s = <<>> THEN <<>> ELSE [i \in 1..Len(v.s) |-> PyStr(<<v.s[i]>>)]
    [] v.k = "dict" ->
         IF v.items = <<>> THEN <<>> ELSE [i \in 1..Len(v.items) |-> PyStr(v.items[i].key)]
    [] OTHER -> <<>>

\* value.upper().replace("-", "_").replace(" ", "_")
enum_value(value) == replace(replace(upper(value), "-", "_"), " ", "_")

RECURSIVE enum_lines(_)
\* the member lines of an enum block: "  MEMBER\n" per value
enum_lines(values) ==
  IF values = <<>> THEN <<>>
  ELSE <<" ", " ">> \o enum_value(values[1].s) \o NL \o enum_lines(Tail(values))

\* the lines loop of _generate_class without the `is None` test
RECURSIVE field_lines_no_skip(_)
field_lines_no_skip(items) ==
  IF items = <<>> THEN [exc |-> "", lines |-> <<>>]
  ELSE LET p == parse_field_definition(items[1].val, items[1].key)
           rest == field_lines_no_skip(Tail(items))
       IN  IF p.exc # "" THEN [exc |-> p.exc, lines |-> <<>>]
           ELSE IF rest.exc # "" THEN rest
           ELSE [exc |-> "",
                 lines |-> << <<" ", " ">> \o items[1].key \o <<" ">> \o p.type
                              \o (IF p.optional THEN <<"?">> ELSE <<>>) >>
                            \o rest.lines]

\* the lines loop of _generate_class (a field whose value is None is skipped)
RECURSIVE field_lines(_)
field_lines(items) ==
  IF items = <<>> THEN [exc |-> "", lines |-> <<>>]
  ELSE IF items[1].val = PyNone THEN field_lines(Tail(items))
  ELSE LET p == parse_field_definition(items[1].val, items[1].key)
           rest == field_lines(Tail(items))
       IN  IF p.exc # "" THEN [exc |-> p.exc, lines |-> <<>>]
           ELSE IF rest.exc # "" THEN rest
           ELSE [exc |-> "",
                 lines |-> << <<" ", " ">> \o items[1].key \o <<" ">> \o p.type
                              \o (IF p.optional THEN <<"?">> ELSE <<>>) >>
                            \o rest.lines]

RECURSIVE generate_class(_, _, _), generate_nested_classes(_, _, _), nested_loop(_, _)

\* the nested-classes loop of _generate_class: the non-empty code of each
\* field that is not None, in order, threading generated_classes
nested_loop(items, gc) ==
  IF items = <<>> THEN [exc |-> "", codes |-> <<>>, gc |-> gc]
  ELSE IF items[1].val = PyNone THEN nested_loop(Tail(items), gc)
  ELSE LET c == generate_nested_classes(items[1].val, items[1].key, gc)
       IN  IF c.exc # "" THEN [exc |-> c.exc, codes |-> <<>>, gc |-> c.gc]
           ELSE LET rest == nested_loop(Tail(items), c.gc)
                IN  [exc |-> rest.exc,
                     codes |-> IF rest.exc # "" THEN <<>>
                               ELSE IF c.text # <<>> THEN <<c.text>> \o rest.codes
                               ELSE rest.codes,
                     gc |-> rest.gc]

\* _generate_class without the test for a name already generated
generate_class_no_guard(schema_dict, class_name, gc) ==
  IF ~isinstance(schema_dict, "dict")
  THEN [exc |-> "AttributeError", text |-> <<>>, gc |-> gc \cup {class_name}]
  ELSE IF field_lines(schema_dict.items).exc # ""
  THEN [exc |-> field_lines(schema_dict.items).exc, text |-> <<>>,
        gc |-> gc \cup {class_name}]
  ELSE LET nested == nested_loop(schema_dict.items, gc \cup {class_name})
       IN  IF nested.exc # ""
           THEN [exc |-> nested.exc, text |-> <<>>, gc |-> nested.gc]
           ELSE [exc |-> "",
                 text |-> join(NL, nested.codes)
                          \o (IF nested.codes # <<>> THEN NL \o NL ELSE <<>>)
                          \o join(NL, << S_class_kw \o <<" ">> \o class_name \o <<" ", "{">> >>
                                       \o field_lines(schema_dict.items).lines
                                       \o << <<"}">> >>),
                 gc |-> nested.gc]

\* _generate_class
generate_class(schema_dict, class_name, gc) ==
  IF class_name \in gc THEN [exc |-> "", text |-> <<>>, gc |-> gc]
  ELSE LET gc1 == gc \cup {class_name}
       IN  IF ~isinstance(schema_dict, "dict")
           THEN [exc |-> "AttributeError", text |-> <<>>, gc |-> gc1]
           ELSE LET fl == field_lines(schema_dict.items)
                IN  IF fl.exc # "" THEN [exc |-> fl.exc, text |-> <<>>, gc |-> gc1]
                    ELSE LET lines == << S_class_kw \o <<" ">> \o class_name \o <<" ", "{">> >>
                                      \o fl.lines \o << <<"}">> >>
                             nested == nested_loop(schema_dict.items, gc1)
                         IN  IF nested.exc # ""
                             THEN [exc |-> nested.exc, text |-> <<>>, gc |-> nested.gc]
                             ELSE [exc |-> "",
                                   text |-> join(NL, nested.codes)
                                            \o (IF nested.codes # <<>> THEN NL \o NL ELSE <<>>)
                                            \o join(NL, lines),
                                   gc |-> nested.gc]

\* _generate_nested_classes
generate_nested_classes(field_def, field_name, gc) ==
  IF isinstance(field_def, "dict") /\ get(field_def, S_type, PyNone) = PyStr(S_enum)
  THEN LET values == get(field_def, S_values, PyList(<<>>))
           vs == iterate(values)
       IN  IF ~iterable(values) THEN [exc |-> "TypeError", text |-> <<>>, gc |-> gc]
           ELSE IF \E i \in DOMAIN vs : vs[i].k # "str"
           THEN [exc |-> "AttributeError", text |-> <<>>, gc |-> gc]
           ELSE [exc |-> "",
                 text |-> S_enum \o <<" ">> \o title(field_name) \o S_Enum \o <<" ", "{">> \o NL
                          \o enum_lines(vs) \o <<"}">> \o NL,
                 gc |-> gc]
  ELSE IF isinstance(field_def, "dict") /\ ~contains(field_def, S_type)
  THEN generate_class(field_def, title(field_name) \o S_Class, gc)
  ELSE IF isinstance(field_def, "dict") /\ contains(field_def, S_type)
          /\ get(field_def, S_type, PyNone) # PyStr(S_enum)
  THEN LET type_def == get(field_def, S_type, PyNone)
       IN  IF isinstance(type_def, "dict")
           THEN generate_class(type_def, title(field_name) \o S_Class, gc)
           ELSE [exc |-> "", text |-> <<>>, gc |-> gc]
  ELSE [exc |-> "", text |-> <<>>, gc |-> gc]

\* the outcome of a call: a returned text, or a raised exception with its
\* schema_dict attribute
Returned(text) == [kind |-> "return", text |-> text, exc |-> "", schema_dict |-> PyNone]

Raised(exc, schema_dict) ==
  [kind |-> "raise", text |-> <<>>, exc |-> exc, schema_dict |-> schema_dict]

\* generate_schema with a handler that catches SchemaGenerationError only:
\* any other exception leaves the call as it is
generate_schema_narrow_except(schema_dict, schema_name, gc) ==
  LET r == generate_class(schema_dict, schema_name, {})
  IN  [outcome |-> IF r.exc = "" THEN Returned(r.text)
                   ELSE IF r.exc = "SchemaGenerationError"
                   THEN Raised("SchemaGenerationError", schema_dict)
                   ELSE Raised(r.exc, PyNone),
       gc |-> r.gc]

\* generate_schema without generated_classes.clear()
generate_schema_no_clear(schema_dict, schema_name, gc) ==
  LET r == generate_class(schema_dict, schema_name, gc)
  IN  [outcome |-> IF r.exc = "" THEN Returned(r.text)
                   ELSE Raised("SchemaGenerationError", schema_dict),
       gc |-> r.gc]

\* generate_schema on an instance whose generated_classes is gc: the set is
\* cleared, then the root class is generated; every exception is caught and
\* replaced by SchemaGenerationError(message, schema_dict)
generate_schema(schema_dict, schema_name, gc) ==
  LET cleared == gc \ gc
      r == generate_class(schema_dict, schema_name, cleared)
  IN  [outcome |-> IF r.exc = "" THEN Returned(r.text)
                   ELSE Raised("SchemaGenerationError", schema_dict),
       gc |-> r.gc]

(***************************************************************************)
(* The inputs of the model: schema dictionaries, and the values a caller   *)
(* may pass in their place.                                                *)
(***************************************************************************)
\* nodes (field specifications) in a generated schema dictionary
MaxNodes == 3

\* characters in a generated enumeration value
MaxValueLen == 2

FieldNames == {<<"a">>, <<"b">>}

SchemaNames == {<<"R">>, <<"A">> \o S_Class}

TypeStrings ==
  {S_string, S_str, S_int, S_integer, S_float, S_double, S_bool, S_boolean,
   S_enum, <<"I","n","t">>, <<"z","z">>, <<>>}

EnumDescriptor(values) ==
  PyDict(<<Item(S_type, PyStr(S_enum)), Item(S_values, PyList(values))>>)

OptionalWrapper(spec, flag) ==
  PyDict(<<Item(S_type, spec), Item(S_optional, PyBool(flag))>>)

\* field specifications of one node: None, a primitive, an array, a bare
\* number and an enumeration descriptor
AtomSpecs ==
  {PyNone,
   PyStr(S_int),
   PyInt(5),
   PyList(<<PyStr(S_float)>>),
   EnumDescriptor(<<PyStr(<<"x","-","y">>), PyStr(<<"z">>)>>)}

\* further specifications: an unknown primitive, malformed shapes, and
\* mappings that use the reserved keys "type" and "optional"
OtherSpecs ==
  {PyStr(<<"z","z">>),
   PyBool(TRUE),
   PyList(<<>>),
   PyList(<<PyStr(S_int), PyStr(S_str)>>),
   PyList(<<PyList(<<PyStr(S_int)>>)>>),
   PyDict(<<Item(S_type, PyStr(S_enum)),
            Item(S_values, PyList(<<PyStr(<<"x">>)>>)),
            Item(S_optional, PyBool(TRUE))>>),
   PyDict(<<Item(S_type, PyStr(S_enum)), Item(S_values, PyNone)>>),
   PyDict(<<Item(S_optional, PyBool(TRUE))>>),
   PyDict(<<Item(S_type, PyNone), Item(<<"b">>, PyStr(S_int))>>),
   PyDict(<<Item(S_type, PyStr(S_string)), Item(<<"b">>, PyStr(S_int))>>)}

KeysOf(items) == {items[i].key : i \in DOMAIN items}

RECURSIVE SpecsOfSize(_), ItemsOfSize(_)
\* the ordered entries of a mapping whose field specifications have n nodes
\* in all, with distinct keys
ItemsOfSize(n) ==
  IF n = 0 THEN {<<>>}
  ELSE UNION {{<<Item(kr[1], v)>> \o kr[2] :
                 kr \in {x \in FieldNames \X ItemsOfSize(n - m) : x[1] \notin KeysOf(x[2])},
                 v \in SpecsOfSize(m)} : m \in 1..n}

\* the field specifications of n nodes
SpecsOfSize(n) ==
  IF n = 0 THEN {}
  ELSE (IF n = 1 THEN AtomSpecs ELSE {})
       \cup {PyDict(items) : items \in ItemsOfSize(n - 1)}
       \cup {OptionalWrapper(spec, flag) : spec \in SpecsOfSize(n - 1), flag \in BOOLEAN}

\* schema dictionaries of at most MaxNodes nodes
TreeInputs == UNION {{PyDict(items) : items \in ItemsOfSize(n)} : n \in 0..MaxNodes}

\* each further specification as a root field and as a field of a nested object
OtherInputs ==
  {PyDict(<<Item(k, v)>>) : k \in FieldNames, v \in OtherSpecs}
  \cup {PyDict(<<Item(k1, PyDict(<<Item(k2, v)>>))>>) :
          k1 \in FieldNames, k2 \in FieldNames, v \in OtherSpecs}

\* one field per type string, bare and as the element of an array
TypeTagInputs ==
  {PyDict(<<Item(<<"f">>, PyStr(t))>>) : t \in TypeStrings}
  \cup {PyDict(<<Item(<<"f">>, PyList(<<PyStr(t)>>))>>) : t \in TypeStrings}

ValueChars == {"a", "B", "1", "-", " ", "!", "_"}

RECURSIVE StringsUpTo(_)
StringsUpTo(n) ==
  IF n = 0 THEN {<<>>}
  ELSE StringsUpTo(n - 1)
       \cup {Append(s, c) : s \in {t \in StringsUpTo(n - 1) : Len(t) = n - 1}, c \in ValueChars}

\* one enumeration field per value string, followed by a second value
EnumValueInputs ==
  {PyDict(<<Item(<<"f">>, EnumDescriptor(<<PyStr(v), PyStr(<<"o","k">>)>>))>>) :
     v \in StringsUpTo(MaxValueLen)}

\* top-level inputs that are not mappings
NonMappingInputs ==
  {PyNone, PyStr(<<"a","b","c">>), PyStr(<<>>), PyInt(5), PyBool(TRUE),
   PyList(<<>>), PyList(<<PyStr(S_int)>>)}

Inputs ==
  TreeInputs \cup OtherInputs \cup TypeTagInputs \cup EnumValueInputs \cup NonMappingInputs

\* the dictionaries passed to an instance that is used for several calls
ReuseInputs ==
  {PyDict(items) : items \in ItemsOfSize(0) \cup ItemsOfSize(1) \cup ItemsOfSize(2)}
  \cup NonMappingInputs

\* generate_schema calls made on one instance
MaxCalls == 2

(***************************************************************************)
(* BAMLExecutor (baml_executor.py): the regular expressions it searches    *)
(* with, json.loads, and the parsing of a response and of schema text.     *)
(***************************************************************************)
\* the characters \s matches and str.strip() removes
Whitespace == {" ", "\t", "\n", "\r", "\f"}

\* the characters \w matches
IsWord(c) == IsAlnum(c) \/ c = "_"

\* the first index from i on whose character is not whitespace
RECURSIVE SkipSpace(_, _)
SkipSpace(s, i) ==
  IF i <= Len(s) /\ s[i] \in Whitespace THEN SkipSpace(s, i + 1) ELSE i

\* the first index from i on whose character is not a word character
RECURSIVE WordEnd(_, _)
WordEnd(s, i) ==
  IF i <= Len(s) /\ IsWord(s[i]) THEN WordEnd(s, i + 1) ELSE i

\* s[i:i+len(p)] == p
HasAt(s, i, p) == i + Len(p) - 1 <= Len(s) /\ SubSeq(s, i, i + Len(p) - 1) = p

Least(S) == CHOOSE i \in S : \A j \in S : i <= j

Greatest(S) == CHOOSE i \in S : \A j \in S : j <= i

\* str.strip()
strip(s) ==
  LET keep == {i \in DOMAIN s : s[i] \notin Whitespace}
  IN  IF keep = {} THEN <<>> ELSE SubSeq(s, Least(keep), Greatest(keep))

\* str.lower()
lower(s) == IF s = <<>> THEN <<>> ELSE [i \in 1..Len(s) |-> lower_char(s[i])]

\* the grave accent, which a string literal here cannot hold, has a stand-in
Backtick == "<backtick>"

Fence == <<Backtick, Backtick, Backtick>>

JsonFence == Fence \o <<"j", "s", "o", "n">>

NoMatch == [ok |-> FALSE, group |-> <<>>, end |-> 0]

\* a match of  opener \s*(\{.*?\})\s*  and a closing fence that starts at p: the group runs
\* from the brace after the opener to the first closing brace that is
\* followed by optional whitespace and a fence
FencedMatch(s, p, opener) ==
  LET i == SkipSpace(s, p + Len(opener))
      closes == {e \in (i + 1)..Len(s) :
                   s[e] = "}" /\ HasAt(s, SkipSpace(s, e + 1), Fence)}
  IN  IF HasAt(s, p, opener) /\ i <= Len(s) /\ s[i] = "{" /\ closes # {}
      THEN [ok |-> TRUE,
            group |-> SubSeq(s, i, Least(closes)),
            end |-> SkipSpace(s, Least(closes) + 1) + Len(Fence)]
      ELSE NoMatch

\* a match of  (\{.*?\})  that starts at p: up to the first closing brace
BraceMatch(s, p) ==
  LET closes == {e \in (p + 1)..Len(s) : s[e] = "}"}
  IN  IF p <= Len(s) /\ s[p] = "{" /\ closes # {}
      THEN [ok |-> TRUE, group |-> SubSeq(s, p, Least(closes)), end |-> Least(closes) + 1]
      ELSE NoMatch

\* a match of  kw\s+(\w+)\s*\{\s*([^}]+)\s*\}  that starts at p; the body
\* group starts after the leading whitespace (at the last whitespace
\* character when there is nothing else) and runs up to the closing brace
BlockMatch(s, p, kw) ==
  LET b == SkipSpace(s, p + Len(kw))
      c == WordEnd(s, b)
      d == SkipSpace(s, c)
      e == SkipSpace(s, d + 1)
      closes == {q \in (d + 1)..Len(s) : s[q] = "}"}
      q == Least(closes)
  IN  IF /\ HasAt(s, p, kw)
         /\ b > p + Len(kw)
         /\ c > b
         /\ d <= Len(s) /\ s[d] = "{"
         /\ closes # {} /\ q > d + 1
      THEN [ok |-> TRUE,
            group |-> <<SubSeq(s, b, c - 1),
                        SubSeq(s, IF e < q THEN e ELSE q - 1, q - 1)>>,
            end |-> q + 1]
      ELSE NoMatch

\* the first index from i on whose character is "?" or a newline
RECURSIVE TypeEnd(_, _)
TypeEnd(s, i) ==
  IF i <= Len(s) /\ s[i] \notin {"?", "\n"} THEN TypeEnd(s, i + 1) ELSE i

\* a match of  (\w+):\s*([^?\n]+)(\?)?  that starts at p; the whitespace
\* after the colon is given back, from the right, until the type group has
\* a character to start with
FieldMatch(s, p) ==
  LET c == WordEnd(s, p)
      w == SkipSpace(s, c + 1)
      starts == {st \in (c + 1)..w : st <= Len(s) /\ s[st] \notin {"?", "\n"}}
      st == Greatest(starts)
      t == TypeEnd(s, st)
      marked == t <= Len(s) /\ s[t] = "?"
  IN  IF c > p /\ c <= Len(s) /\ s[c] = ":" /\ starts # {}
      THEN [ok |-> TRUE,
            group |-> <<SubSeq(s, p, c - 1), SubSeq(s, st, t - 1),
                        IF marked THEN <<"?">> ELSE <<>>>>,
            end |-> IF marked THEN t + 1 ELSE t]
      ELSE NoMatch

MatchAt(pattern, s, p) ==
  CASE pattern = "json_fence" -> FencedMatch(s, p, JsonFence)
    [] pattern = "fence" -> FencedMatch(s, p, Fence)
    [] pattern = "brace" -> BraceMatch(s, p)
    [] pattern = "class" -> BlockMatch(s, p, S_class_kw)
    [] pattern = "enum" -> BlockMatch(s, p, S_enum)
    [] pattern = "field" -> FieldMatch(s, p)

\* re.findall: the groups of the matches found from p on, left to right,
\* each search starting where the previous match ended
RECURSIVE findall(_, _, _)
findall(pattern, s, p) ==
  IF p > Len(s) THEN <<>>
  ELSE LET m == MatchAt(pattern, s, p)
       IN  IF m.ok THEN <<m.group>> \o findall(pattern, s, m.end)
           ELSE findall(pattern, s, p + 1)

(***************************************************************************)
(* json.loads.  A decoded number without fraction or exponent is an int;   *)
(* any other number is a float that keeps its literal.  The texts of the   *)
(* model hold no \u escape, which is not decoded here.                     *)
(***************************************************************************)
JsonSpace == {" ", "\t", "\n", "\r"}

RECURSIVE SkipJsonSpace(_, _)
SkipJsonSpace(s, i) ==
  IF i <= Len(s) /\ s[i] \in JsonSpace THEN SkipJsonSpace(s, i + 1) ELSE i

PyFloat(literal) == PyVal("float", literal, 0, <<>>)

Failed == [ok |-> FALSE, val |-> PyNone, end |-> 0]

Decoded(val, end) == [ok |-> TRUE, val |-> val, end |-> end]

\* the characters a string may not hold unescaped
ControlChars == {"\t", "\n", "\r", "\f"}

\* the character an escape letter stands for
Escapes ==
  [c \in {"\"", "\\", "/", "b", "f", "n", "r", "t"} |->
     CASE c = "b" -> "\\b"
       [] c = "f" -> "\f"
       [] c = "n" -> "\n"
       [] c = "r" -> "\r"
       [] c = "t" -> "\t"
       [] OTHER -> c]

\* scanstring: the string whose opening quote is before i
RECURSIVE scanstring(_, _, _)
scanstring(s, i, acc) ==
  IF i > Len(s) THEN Failed
  ELSE IF s[i] = "\"" THEN Decoded(PyStr(acc), i + 1)
  ELSE IF s[i] \in ControlChars THEN Failed
  ELSE IF s[i] = "\\"
       THEN IF i + 1 <= Len(s) /\ s[i + 1] \in DOMAIN Escapes
            THEN scanstring(s, i + 2, Append(acc, Escapes[s[i + 1]]))
            ELSE Failed
  ELSE scanstring(s, i + 1, Append(acc, s[i]))

RECURSIVE DigitsEnd(_, _)
DigitsEnd(s, i) ==
  IF i <= Len(s) /\ s[i] \in Digits THEN DigitsEnd(s, i + 1) ELSE i

DigitChars == <<"0", "1", "2", "3", "4", "5", "6", "7", "8", "9">>

\* int() of a run of digits
RECURSIVE IntOf(_)
IntOf(ds) ==
  IF ds = <<>> THEN 0
  ELSE 10 * IntOf(SubSeq(ds, 1, Len(ds) - 1))
       + (CHOOSE n \in 0..9 : DigitChars[n + 1] = ds[Len(ds)])

\* the end of (?:0|[1-9]\d*) matched at a
IntEnd(s, a) == IF a <= Len(s) /\ s[a] = "0" THEN a + 1 ELSE DigitsEnd(s, a)

\* the end of (\.\d+)? matched at b
FracEnd(s, b) ==
  IF b + 1 <= Len(s) /\ s[b] = "." /\ s[b + 1] \in Digits THEN DigitsEnd(s, b + 1) ELSE b

\* the end of ([eE][-+]?\d+)? matched at c
ExpEnd(s, c) ==
  LET x == IF c <= Len(s) /\ s[c] \in {"e", "E"}
           THEN (IF c + 1 <= Len(s) /\ s[c + 1] \in {"+", "-"} THEN c + 2 ELSE c + 1)
           ELSE c
  IN  IF x > c /\ x <= Len(s) /\ s[x] \in Digits THEN DigitsEnd(s, x) ELSE c

\* the number matched from i to d, its integer part standing from a to b:
\* an int when there is no fraction and no exponent, a float otherwise
number(s, i, a, b, d) ==
  IF b = a THEN Failed
  ELSE IF d = b
       THEN Decoded(PyInt(IF a > i THEN 0 - IntOf(SubSeq(s, a, b - 1))
                                   ELSE IntOf(SubSeq(s, a, b - 1))), b)
       ELSE Decoded(PyFloat(SubSeq(s, i, d - 1)), d)

\* the number after the sign, if any, that ends before a
signed_number(s, i, a, b) == number(s, i, a, b, ExpEnd(s, FracEnd(s, b)))

\* NUMBER_RE  (-?(?:0|[1-9]\d*))(\.\d+)?([eE][-+]?\d+)?  matched at i
scan_number(s, i) ==
  LET a == IF i <= Len(s) /\ s[i] = "-" THEN i + 1 ELSE i
  IN  signed_number(s, i, a, IntEnd(s, a))

\* d[key] = val: a key already present keeps its place and takes the value
setitem(items, key, val) ==
  IF \E i \in DOMAIN items : items[i].key = key
  THEN [i \in DOMAIN items |-> IF items[i].key = key THEN Item(key, val) ELSE items[i]]
  ELSE Append(items, Item(key, val))

S_null == <<"n", "u", "l", "l">>

S_true == <<"t", "r", "u", "e">>

S_false == <<"f", "a", "l", "s", "e">>

S_NaN == <<"N", "a", "N">>

S_Infinity == <<"I", "n", "f", "i", "n", "i", "t", "y">>

RECURSIVE scan_once(_, _), JSONObject(_, _, _), JSONArray(_, _, _)

\* the value that starts at i
scan_once(s, i) ==
  IF i > Len(s) THEN Failed
  ELSE IF s[i] = "\"" THEN scanstring(s, i + 1, <<>>)
  ELSE IF s[i] = "{"
       THEN LET j == SkipJsonSpace(s, i + 1)
            IN  IF j <= Len(s) /\ s[j] = "}" THEN Decoded(PyDict(<<>>), j + 1)
                ELSE JSONObject(s, j, <<>>)
  ELSE IF s[i] = "["
       THEN LET j == SkipJsonSpace(s, i + 1)
            IN  IF j <= Len(s) /\ s[j] = "]" THEN Decoded(PyList(<<>>), j + 1)
                ELSE JSONArray(s, j, <<>>)
  ELSE IF HasAt(s, i, S_null) THEN Decoded(PyNone, i + 4)
  ELSE IF HasAt(s, i, S_true) THEN Decoded(PyBool(TRUE), i + 4)
  ELSE IF HasAt(s, i, S_false) THEN Decoded(PyBool(FALSE), i + 5)
  ELSE IF scan_number(s, i).ok THEN scan_number(s, i)
  ELSE IF HasAt(s, i, S_NaN) THEN Decoded(PyFloat(S_NaN), i + 3)
  ELSE IF HasAt(s, i, S_Infinity) THEN Decoded(PyFloat(S_Infinity), i + 8)
  ELSE IF HasAt(s, i, <<"-">> \o S_Infinity)
       THEN Decoded(PyFloat(<<"-">> \o S_Infinity), i + 9)
  ELSE Failed

\* the members of an object from the key that must start at j on
JSONObject(s, j, items) ==
  IF ~(j <= Len(s) /\ s[j] = "\"") THEN Failed
  ELSE LET key == scanstring(s, j + 1, <<>>)
           c == SkipJsonSpace(s, key.end)
           v == scan_once(s, SkipJsonSpace(s, c + 1))
           n == SkipJsonSpace(s, v.end)
       IN  IF ~key.ok THEN Failed
           ELSE IF ~(c <= Len(s) /\ s[c] = ":") THEN Failed
           ELSE IF ~v.ok \/ n > Len(s) THEN Failed
           ELSE IF s[n] = "}"
                THEN Decoded(PyDict(setitem(items, key.val.s, v.val)), n + 1)
           ELSE IF s[n] = ","
                THEN JSONObject(s, SkipJsonSpace(s, n + 1),
                                setitem(items, key.val.s, v.val))
           ELSE Failed

\* the elements of an array from the value that must start at j on
JSONArray(s, j, elems) ==
  LET v == scan_once(s, j)
      n == SkipJsonSpace(s, v.end)
  IN  IF ~v.ok \/ n > Len(s) THEN Failed
      ELSE IF s[n] = "]" THEN Decoded(PyList(Append(elems, v.val)), n + 1)
      ELSE IF s[n] = ","
           THEN JSONArray(s, SkipJsonSpace(s, n + 1), Append(elems, v.val))
      ELSE Failed

\* json.loads(s): one value with nothing but whitespace around it
json_loads(s) ==
  LET r == scan_once(s, SkipJsonSpace(s, 1))
  IN  IF r.ok /\ SkipJsonSpace(s, r.end) = Len(s) + 1
      THEN [exc |-> "", val |-> r.val]
      ELSE [exc |-> "JSONDecodeError", val |-> PyNone]

(***************************************************************************)
(* BAMLExecutor's methods.  A helper's result carries the exception type   *)
(* that left it ("" when it returned) and its return value.                *)
(***************************************************************************)
S__type == <<"_", "t", "y", "p", "e">>

\* fields[field_name] = {"type": ..., "optional": ...} for each field match
RECURSIVE field_entries(_, _)
field_entries(field_matches, fields) ==
  IF field_matches = <<>> THEN fields
  ELSE LET m == Head(field_matches)
       IN  field_entries(Tail(field_matches),
             setitem(fields, m[1],
                     PyDict(<<Item(S_type, PyStr(strip(m[2]))),
                              Item(S_optional, PyBool(m[3] # <<>>))>>)))

\* schema_structure[class_name] = fields for each class match
RECURSIVE class_entries(_, _)
class_entries(classes, schema_structure) ==
  IF classes = <<>> THEN schema_structure
  ELSE LET m == Head(classes)
       IN  class_entries(Tail(classes),
             setitem(schema_structure, m[1],
                     PyDict(field_entries(findall("field", m[2], 1), <<>>))))

\* [value.strip() for value in lines if value.strip()]
RECURSIVE stripped_values(_)
stripped_values(lines) ==
  IF lines = <<>> THEN <<>>
  ELSE (IF strip(Head(lines)) # <<>> THEN <<PyStr(strip(Head(lines)))>> ELSE <<>>)
       \o stripped_values(Tail(lines))

\* schema_structure[enum_name] = {"_type": "enum", "values": values}
RECURSIVE enum_entries(_, _)
enum_entries(enums, schema_structure) ==
  IF enums = <<>> THEN schema_structure
  ELSE LET m == Head(enums)
       IN  enum_entries(Tail(enums),
             setitem(schema_structure, m[1],
                     PyDict(<<Item(S__type, PyStr(S_enum)),
                              Item(S_values,
                                   PyList(stripped_values(split(m[2], "\n"))))>>)))

parse_baml_schema(baml_code, schema_name) ==
  IF ~isinstance(baml_code, "str") THEN [exc |-> "TypeError", val |-> PyNone]
  ELSE [exc |-> "",
        val |-> PyDict(enum_entries(findall("enum", baml_code.s, 1),
                         class_entries(findall("class", baml_code.s, 1), <<>>)))]

\* a CompiledSchema object; the caller may also hand in something else
CompiledSchema(schema_name, baml_code, parsed_structure) ==
  [k |-> "CompiledSchema", schema_name |-> schema_name,
   baml_code |-> baml_code, parsed_structure |-> parsed_structure]

NoCompiledSchema ==
  [k |-> "NoneType", schema_name |-> <<>>, baml_code |-> PyNone,
   parsed_structure |-> PyNone]

\* a cache that holds the last compiled schema only
cache_schema_only(cache, schema_name, compiled) == schema_name :> compiled

\* line 45: self.compiled_schemas[schema_name] = compiled_schema
cache_schema(cache, schema_name, compiled) == (schema_name :> compiled) @@ cache

\* one finished compile_schema call: its arguments and its outcome
CompileCall(baml_code, schema_name, c) ==
  [baml_code |-> baml_code, schema_name |-> schema_name, exc |-> c.exc, val |-> c.val]

compile_schema(baml_code, schema_name) ==
  LET parsed == parse_baml_schema(baml_code, schema_name)
  IN  IF parsed.exc # ""
      THEN [exc |-> "BAMLCompilationError", cause |-> parsed.exc,
            baml_code |-> baml_code, val |-> NoCompiledSchema]
      ELSE [exc |-> "", cause |-> "", baml_code |-> PyNone,
            val |-> CompiledSchema(schema_name, baml_code, parsed.val)]

json_patterns == <<"json_fence", "fence", "brace">>

\* the matches of the patterns, pattern by pattern, each in text order
RECURSIVE pattern_matches(_, _)
pattern_matches(patterns, response) ==
  IF patterns = <<>> THEN <<>>
  ELSE findall(Head(patterns), response, 1) \o pattern_matches(Tail(patterns), response)

\* the decode of the first match that decodes
RECURSIVE first_decoded(_), decoded_or_next(_, _)
first_decoded(matches) ==
  IF matches = <<>> THEN [found |-> FALSE, val |-> PyNone]
  ELSE decoded_or_next(json_loads(Head(matches)), Tail(matches))

\* return json.loads(match), or continue on json.JSONDecodeError
decoded_or_next(r, rest) ==
  IF r.exc = "" THEN [found |-> TRUE, val |-> r.val] ELSE first_decoded(rest)

\* the decode f of a match, or else json.loads of the whole stripped text,
\* None when that does not decode
decoded_or_whole(f, response) ==
  IF f.found THEN [exc |-> "", val |-> f.val]
  ELSE [exc |-> "", val |-> json_loads(strip(response.s)).val]

extract_json_with(patterns, response) ==
  IF ~isinstance(response, "str") THEN [exc |-> "TypeError", val |-> PyNone]
  ELSE decoded_or_whole(first_decoded(pattern_matches(patterns, response.s)), response)

\* _extract_json_from_response with the brace pattern tried first
extract_json_brace_first(response) ==
  extract_json_with(<<"brace", "json_fence", "fence">>, response)

\* _extract_json_from_response without the last except clause: a whole text
\* that does not decode lets JSONDecodeError out
extract_json_uncaught(response) ==
  LET r == extract_json_with(json_patterns, response)
  IN  IF /\ isinstance(response, "str")
         /\ ~first_decoded(pattern_matches(json_patterns, response.s)).found
         /\ json_loads(strip(response.s)).exc # ""
      THEN [exc |-> "JSONDecodeError", val |-> PyNone]
      ELSE r

extract_json_from_response(response) == extract_json_with(json_patterns, response)

\* _validate_against_schema without the isinstance test
validate_against_schema_unchecked(data, schema) == [exc |-> "", val |-> data]

\* _validate_against_schema keeping only the keys that some class of the
\* schema declares as a field
validate_against_schema_filtering(data, schema) ==
  IF ~isinstance(data, "dict") THEN [exc |-> "ValueError", val |-> PyNone]
  ELSE [exc |-> "",
        val |-> PyDict(SelectSeq(data.items,
                  LAMBDA it : \E i \in DOMAIN schema.items :
                                contains(schema.items[i].val, it.key)))]

validate_against_schema(data, schema) ==
  IF ~isinstance(data, "dict") THEN [exc |-> "ValueError", val |-> PyNone]
  ELSE [exc |-> "", val |-> data]

\* the loop of _parse_structured_text with a key keeping its first value
RECURSIVE structured_lines_keep_first(_, _)
structured_lines_keep_first(lines, result) ==
  IF lines = <<>> THEN result
  ELSE LET line == Head(lines)
           i == FirstIndex(line, ":")
           key == lower(strip(SubSeq(line, 1, i - 1)))
           value == strip(SubSeq(line, i + 1, Len(line)))
       IN  structured_lines_keep_first(Tail(lines),
             IF i # 0 /\ key # <<>> /\ value # <<>>
                /\ ~\E n \in DOMAIN result : result[n].key = key
             THEN Append(result, Item(key, PyStr(value)))
             ELSE result)

\* the pairs of the lines that hold a colon, a later pair replacing an
\* earlier one of the same key
RECURSIVE structured_lines(_, _)
structured_lines(lines, result) ==
  IF lines = <<>> THEN result
  ELSE LET line == Head(lines)
           i == FirstIndex(line, ":")
           key == lower(strip(SubSeq(line, 1, i - 1)))
           value == strip(SubSeq(line, i + 1, Len(line)))
       IN  structured_lines(Tail(lines),
             IF i # 0 /\ key # <<>> /\ value # <<>>
             THEN setitem(result, key, PyStr(value))
             ELSE result)

parse_structured_text(text, schema) ==
  PyDict(structured_lines(split(text.s, "\n"), <<>>))

ParsedData(val) ==
  [kind |-> "return", val |-> val, exc |-> "", cause |-> "",
   raw_response |-> PyNone, schema_name |-> <<>>]

ResponseParsingError(cause, raw_response, schema_name) ==
  [kind |-> "raise", val |-> PyNone, exc |-> "ResponseParsingError", cause |-> cause,
   raw_response |-> raw_response, schema_name |-> schema_name]

\* lines 74-78: the validated data is returned, an exception goes to the
\* except clause
return_validated(validated, raw_response, schema_name) ==
  IF validated.exc # ""
  THEN ResponseParsingError(validated.exc, raw_response, schema_name)
  ELSE ParsedData(validated.val)

\* lines 72-93, with json_data the outcome of _extract_json_from_response
parse_extracted(json_data, compiled_schema, raw_response, schema_name) ==
  IF json_data.exc # ""
  THEN ResponseParsingError(json_data.exc, raw_response, schema_name)
  ELSE IF compiled_schema.k # "CompiledSchema"
  THEN ResponseParsingError("AttributeError", raw_response, schema_name)
  ELSE IF truth(json_data.val)
  THEN return_validated(
         validate_against_schema(json_data.val, compiled_schema.parsed_structure),
         raw_response, schema_name)
  ELSE ParsedData(parse_structured_text(raw_response, compiled_schema.parsed_structure))

parse_response(compiled_schema, raw_response, schema_name) ==
  parse_extracted(extract_json_from_response(raw_response), compiled_schema, raw_response,
                  schema_name)

(***************************************************************************)
(* The responses handed to parse_response: serialized documents, texts     *)
(* put together from fenced blocks, brace-delimited objects and plain      *)
(* lines, and values that are no strings.                                  *)
(***************************************************************************)
\* nodes of a JSON document
MaxDocNodes == 3

\* pieces of a response text
MaxFragments == 2

\* str(n) of an int
RECURSIVE IntChars(_)
IntChars(n) ==
  IF n < 0 THEN <<"-">> \o IntChars(0 - n)
  ELSE IF n < 10 THEN <<DigitChars[n + 1]>>
  ELSE IntChars(n \div 10) \o <<DigitChars[(n % 10) + 1]>>

\* a string as json.dumps writes it
RECURSIVE EscapedChars(_)
EscapedChars(s) ==
  IF s = <<>> THEN <<>>
  ELSE (CASE Head(s) = "\"" -> <<"\\", "\"">>
          [] Head(s) = "\\" -> <<"\\", "\\">>
          [] Head(s) = "\n" -> <<"\\", "n">>
          [] Head(s) = "\t" -> <<"\\", "t">>
          [] Head(s) = "\r" -> <<"\\", "r">>
          [] Head(s) = "\f" -> <<"\\", "f">>
          [] OTHER -> <<Head(s)>>)
       \o EscapedChars(Tail(s))

Quoted(s) == <<"\"">> \o EscapedChars(s) \o <<"\"">>

\* json.dumps(v) with its default separators
RECURSIVE dumps(_)
dumps(v) ==
  CASE v.k = "NoneType" -> S_null
    [] v.k = "bool" -> IF v.n = 1 THEN S_true ELSE S_false
    [] v.k = "int" -> IntChars(v.n)
    [] v.k = "str" -> Quoted(v.s)
    [] v.k = "list" ->
         <<"[">> \o join(<<",", " ">>, [i \in DOMAIN v.items |-> dumps(v.items[i].val)])
         \o <<"]">>
    [] v.k = "dict" ->
         <<"{">>
         \o join(<<",", " ">>,
                 [i \in DOMAIN v.items |->
                    Quoted(v.items[i].key) \o <<":", " ">> \o dumps(v.items[i].val)])
         \o <<"}">>

DocAtoms == {PyInt(1), PyStr(<<"x", "}">>), PyNone}

RECURSIVE DocsOfSize(_), DocItemsOfSize(_), DocElemsOfSize(_)

\* the item lists of an object whose members hold n nodes
DocItemsOfSize(n) ==
  IF n = 0 THEN {<<>>}
  ELSE UNION {{<<Item(kr[1], v)>> \o kr[2] :
                 kr \in {x \in FieldNames \X DocItemsOfSize(n - m) : x[1] \notin KeysOf(x[2])},
                 v \in DocsOfSize(m)} : m \in 1..n}

\* the element lists of an array whose elements hold n nodes
DocElemsOfSize(n) ==
  IF n = 0 THEN {<<>>}
  ELSE UNION {{<<v>> \o rest : v \in DocsOfSize(m), rest \in DocElemsOfSize(n - m)} :
              m \in 1..n}

\* the JSON values of n nodes
DocsOfSize(n) ==
  IF n = 0 THEN {}
  ELSE (IF n = 1 THEN DocAtoms ELSE {})
       \cup {PyDict(items) : items \in DocItemsOfSize(n - 1)}
       \cup {PyList(elems) : elems \in DocElemsOfSize(n - 1)}

\* the object documents of at most MaxDocNodes nodes besides the root
Documents == UNION {{PyDict(items) : items \in DocItemsOfSize(n)} : n \in 0..MaxDocNodes}

DocumentInputs == {PyStr(dumps(d)) : d \in Documents}

JsonBlock(body) == JsonFence \o NL \o body \o NL \o Fence

PlainBlock(body) == Fence \o NL \o body \o NL \o Fence

Obj(key, n) == <<"{", "\"", key, "\"", ":", " ", n, "}">>

NotJson == <<"{", "b", "a", "d", "}">>

Fragments ==
  {JsonBlock(Obj("a", "1")), JsonBlock(Obj("d", "4")), JsonBlock(NotJson),
   JsonBlock(<<"{", "}">>),
   PlainBlock(Obj("b", "2")), PlainBlock(NotJson),
   Obj("c", "3"), Obj("e", "5"), NotJson, <<"{", "}">>,
   <<"K", "e", "y", ":", " ", "v", " ", "\n">>,
   <<" ", "k", "e", "y", " ", ":", "w", ":", "z">>,
   <<":", "v", "\n", "k", ":", " ", "\n">>,
   <<"x", " ">>, <<"\n">>}

\* the texts of at most n fragments
RECURSIVE TextsUpTo(_)
TextsUpTo(n) ==
  IF n = 0 THEN {<<>>}
  ELSE TextsUpTo(n - 1) \cup {f \o t : f \in Fragments, t \in TextsUpTo(n - 1)}

\* texts that decode as a whole to a value that is no object
ScalarTexts ==
  {<<"[", "1", "]">>, <<"0">>, <<"\"", "s", "\"">>, <<"n", "u", "l", "l">>,
   <<" ", "[", "]", "\n">>}

TextInputs == {PyStr(t) : t \in TextsUpTo(MaxFragments) \cup ScalarTexts}

NonStringResponses == {PyNone, PyInt(5), PyList(<<PyStr(<<"x">>)>>)}

ResponseInputs == DocumentInputs \cup TextInputs \cup NonStringResponses

\* structural metadata of compiled schemas, as _parse_baml_schema builds it
Structures ==
  {PyDict(<<>>),
   PyDict(<<Item(<<"R">>,
                 PyDict(<<Item(<<"a">>,
                               PyDict(<<Item(S_type, PyStr(S_int)),
                                        Item(S_optional, PyBool(FALSE))>>))>>))>>),
   PyDict(<<Item(<<"R">>,
                 PyDict(<<Item(<<"z">>,
                               PyDict(<<Item(S_type, PyStr(S_string)),
                                        Item(S_optional, PyBool(TRUE))>>))>>)),
            Item(<<"E">>,
                 PyDict(<<Item(S__type, PyStr(S_enum)),
                          Item(S_values, PyList(<<PyStr(<<"X">>)>>))>>))>>)}

(***************************************************************************)
(* The state: one DictToBAMLGenerator instance (generated_classes,         *)
(* indent_level), the arguments of the generate_schema call at hand, the   *)
(* number of calls made and the outcome of the last one.                   *)
(***************************************************************************)
VARIABLES generated_classes, indent_level, schema_dict, schema_name, calls, outcome

(***************************************************************************)
(* One BAMLExecutor instance (compiled_schemas), the arguments of the      *)
(* parse_response call at hand (compiled_schema, raw_response, with        *)
(* schema_name), its local json_data and its outcome (response), and the   *)
(* compile_schema calls made on the instance so far, each with its         *)
(* arguments and what it returned or raised (compile_calls).               *)
(***************************************************************************)
VARIABLES compiled_schemas, compiled_schema, raw_response, json_data, response,
          compile_calls

(***************************************************************************)
(* One call_with_schema: where it stands (pc), its options argument, the   *)
(* schema text it generated, the exception in flight (pending), the        *)
(* temporary project directory, the runs of baml-cli, whether the          *)
(* generated client function was invoked, and what the caller receives.    *)
(* entry is the function the caller called, call_with_schema or            *)
(* call_with_schema_safe, call_result what call_with_schema_safe returns,  *)
(* and clients_baml the model written into each client block of            *)
(* baml_src/clients.baml.                                                  *)
(***************************************************************************)
VARIABLES pc, options, baml_code, client_config, pending, project_dir, cli_runs,
          invoked, result, entry, call_result, clients_baml

(***************************************************************************)
(* The interpreter's import state, shared by every call of the process:    *)
(* the project directories on sys.path and the baml_client modules in      *)
(* sys.modules, each with the project directory it was loaded from.        *)
(***************************************************************************)
VARIABLES sys_path, sys_modules

(***************************************************************************)
(* Two call_with_schema invocations in two threads of one process: where   *)
(* each stands in _TemporaryBAMLProject and in the body of the with        *)
(* statement.                                                              *)
(***************************************************************************)
VARIABLES threads

(***************************************************************************)
(* One generate_schema call on dictionaries with an identity: the          *)
(* dictionaries of the input (heap), the _generate_class calls under way,  *)
(* innermost first (stack), and the number of calls that went past the     *)
(* test of line 45 (expansions).                                           *)
(***************************************************************************)
VARIABLES heap, stack, expansions

generator_vars == <<generated_classes, indent_level, schema_dict, schema_name, calls, outcome>>

executor_vars ==
  <<compiled_schemas, compiled_schema, raw_response, json_data, response, compile_calls>>

call_vars ==
  <<pc, options, baml_code, client_config, pending, project_dir, cli_runs, invoked, result,
    entry, call_result, clients_baml>>

interpreter_vars == <<sys_path, sys_modules>>

thread_vars == <<threads>>

heap_vars == <<heap, stack, expansions>>

vars ==
  <<generator_vars, executor_vars, call_vars, interpreter_vars, thread_vars, heap_vars>>

NoOutcome == [kind |-> "none", text |-> <<>>, exc |-> "", schema_dict |-> PyNone]

NoResponse ==
  [kind |-> "none", val |-> PyNone, exc |-> "", cause |-> "",
   raw_response |-> PyNone, schema_name |-> <<>>]

\* An exception object: its class (type), whether the class derives from
\* DynamicBAMLError (dynamic), its error_type attribute, str(e) (message), the
\* statement that created it (origin, which tells two objects of one class
\* apart), and __cause__ and __context__ as sequences of at most one exception.
NoException ==
  [type |-> "", dynamic |-> FALSE, error_type |-> "", message |-> <<>>, origin |-> "",
   cause |-> <<>>, context |-> <<>>]

\* raise ... while in_flight is being handled (NoException when none is)
Raise(type, dynamic, error_type, origin, cause, in_flight) ==
  [type |-> type, dynamic |-> dynamic, error_type |-> error_type, message |-> <<origin>>,
   origin |-> origin, cause |-> cause,
   context |-> IF cause # <<>> THEN cause
               ELSE IF in_flight = NoException THEN <<>> ELSE <<in_flight>>]

NoResult == [kind |-> "none", data |-> PyNone, exception |-> NoException]

\* BAMLExecutor.__init__, with no call of parse_response at hand
InitExecutor ==
  /\ compiled_schemas = <<>>
  /\ compiled_schema = NoCompiledSchema
  /\ raw_response = PyNone
  /\ json_data = PyNone
  /\ compile_calls = <<>>
  /\ response = NoResponse

\* no call_with_schema under way
InitCall ==
  /\ pc = "idle"
  /\ options = PyNone
  /\ baml_code = <<>>
  /\ client_config = <<>>
  /\ pending = NoException
  /\ project_dir = "none"
  /\ cli_runs = 0
  /\ invoked = FALSE
  /\ result = NoResult
  /\ entry = ""
  /\ call_result = PyNone
  /\ clients_baml = <<>>

\* an interpreter that has imported no generated client
InitInterpreter ==
  /\ sys_path = <<>>
  /\ sys_modules = {}

\* no thread was started
InitThreads == threads = <<>>

\* no dictionary with an identity is at hand
InitHeap ==
  /\ heap = <<>>
  /\ stack = <<>>
  /\ expansions = 0

\* DictToBAMLGenerator.__init__, and a caller about to call generate_schema
Init ==
  /\ generated_classes = {}
  /\ indent_level = 0
  /\ schema_dict \in Inputs
  /\ schema_name \in SchemaNames
  /\ calls = 0
  /\ outcome = NoOutcome
  /\ InitExecutor
  /\ InitCall
  /\ InitInterpreter
  /\ InitThreads
  /\ InitHeap

\* one call generator.generate_schema(d, name)
Call(d, name) ==
  LET r == generate_schema(d, name, generated_classes)
  IN  /\ schema_dict' = d
      /\ schema_name' = name
      /\ generated_classes' = r.gc
      /\ indent_level' = 0
      /\ calls' = calls + 1
      /\ outcome' = r.outcome

\* the call on a fresh instance
GenerateSchema ==
  /\ calls = 0
  /\ Call(schema_dict, schema_name)
  /\ UNCHANGED <<executor_vars, call_vars, interpreter_vars, thread_vars, heap_vars>>

Next == GenerateSchema

Spec == Init /\ [][Next]_vars

\* a fresh instance that no caller has used yet
InitReuse ==
  /\ generated_classes = {}
  /\ indent_level = 0
  /\ schema_dict = PyNone
  /\ schema_name = <<>>
  /\ calls = 0
  /\ outcome = NoOutcome
  /\ InitExecutor
  /\ InitCall
  /\ InitInterpreter
  /\ InitThreads
  /\ InitHeap

\* a further call on the same instance, with any arguments
GenerateSchemaAgain ==
  /\ calls < MaxCalls
  /\ \E d \in ReuseInputs, name \in SchemaNames : Call(d, name)
  /\ UNCHANGED <<executor_vars, call_vars, interpreter_vars, thread_vars, heap_vars>>

NextReuse == GenerateSchemaAgain

SpecReuse == InitReuse /\ [][NextReuse]_vars

(***************************************************************************)
(* compile_schema on the text generate_schema returned.                    *)
(***************************************************************************)
CompileSchema ==
  /\ calls = 1
  /\ outcome.kind = "return"
  /\ compiled_schema = NoCompiledSchema
  /\ LET c == compile_schema(PyStr(outcome.text), schema_name)
     IN  /\ c.exc = ""
         /\ compiled_schema' = c.val
         /\ compiled_schemas' = cache_schema(compiled_schemas, schema_name, c.val)
         /\ compile_calls' = Append(compile_calls, CompileCall(PyStr(outcome.text), schema_name, c))
  /\ UNCHANGED <<generator_vars, raw_response, json_data, response, call_vars,
                 interpreter_vars, thread_vars, heap_vars>>

NextCompile == GenerateSchema \/ CompileSchema

SpecCompile == Init /\ [][NextCompile]_vars

(***************************************************************************)
(* A sequence of compile_schema calls on one BAMLExecutor, with any code   *)
(* and name arguments.                                                     *)
(***************************************************************************)
\* compile_schema calls on one instance
MaxCompiles == 3

\* the baml_code arguments: a class, the empty text, an enum and a class,
\* and values that are not strings
CodeInputs ==
  {PyStr(S_class_kw \o <<" ", "R", " ", "{">> \o NL \o <<" ", " ", "a", " ">> \o S_int
         \o NL \o <<"}">>),
   PyStr(<<>>),
   PyStr(S_enum \o <<" ", "A">> \o S_Enum \o <<" ", "{">> \o NL \o <<" ", " ", "X">> \o NL
         \o <<"}">> \o NL \o NL \o NL
         \o S_class_kw \o <<" ", "R", " ", "{">> \o NL \o <<" ", " ", "a", " ", "A">>
         \o S_Enum \o <<"?">> \o NL \o <<"}">>),
   PyInt(5),
   PyNone}

\* lines 33-53 with the outcome c of the try block: the cache is written
\* only when nothing was raised
CompileSchemaCall(code, name, c) ==
  /\ compiled_schema' = c.val
  /\ compiled_schemas' = IF c.exc = "" THEN cache_schema(compiled_schemas, name, c.val)
                         ELSE compiled_schemas
  /\ compile_calls' = Append(compile_calls, CompileCall(code, name, c))

CompileSchemaAgain ==
  /\ Len(compile_calls) < MaxCompiles
  /\ \E code \in CodeInputs, name \in SchemaNames :
       CompileSchemaCall(code, name, compile_schema(code, name))
  /\ UNCHANGED <<generator_vars, raw_response, json_data, response, call_vars,
                 interpreter_vars, thread_vars, heap_vars>>

NextCache == CompileSchemaAgain

SpecCache == InitReuse /\ [][NextCache]_vars

(***************************************************************************)
(* parse_response on a response, with a compiled schema and a schema name. *)
(***************************************************************************)
\* the compiled_schema and schema_name arguments of a caller
CallerArguments ==
  {<<CompiledSchema(<<"R">>, PyStr(<<>>),
                    PyDict(<<Item(<<"R">>,
                                  PyDict(<<Item(<<"a">>,
                                                PyDict(<<Item(S_type, PyStr(S_int)),
                                                         Item(S_optional,
                                                              PyBool(FALSE))>>))>>))>>)),
     <<"R">>>>,
   <<NoCompiledSchema, <<"R">>>>,
   <<CompiledSchema(<<"R">>, PyStr(<<>>), PyDict(<<>>)), <<"A">> \o S_Class>>}

InitParse ==
  /\ generated_classes = {}
  /\ indent_level = 0
  /\ schema_dict = PyNone
  /\ calls = 0
  /\ outcome = NoOutcome
  /\ compiled_schemas = <<>>
  /\ \E a \in CallerArguments : compiled_schema = a[1] /\ schema_name = a[2]
  /\ raw_response \in ResponseInputs
  /\ json_data = PyNone
  /\ response = NoResponse
  /\ compile_calls = <<>>
  /\ InitCall
  /\ InitInterpreter
  /\ InitThreads
  /\ InitHeap

ParseResponse ==
  /\ response = NoResponse
  /\ json_data' = extract_json_from_response(raw_response).val
  /\ response' = parse_response(compiled_schema, raw_response, schema_name)
  /\ UNCHANGED <<generator_vars, compiled_schemas, compiled_schema, raw_response,
                 compile_calls, call_vars, interpreter_vars, thread_vars, heap_vars>>

NextParse == ParseResponse

SpecParse == InitParse /\ [][NextParse]_vars

(***************************************************************************)
(* call_with_schema (core.py), one statement at a time, against an         *)
(* environment that may fail at each external step: the file system,       *)
(* baml-cli, the import of the generated client and the generated          *)
(* function.                                                                *)
(***************************************************************************)
S_provider == <<"p","r","o","v","i","d","e","r">>

S_model == <<"m","o","d","e","l">>

S_ollama == <<"o","l","l","a","m","a">>

S_openai == <<"o","p","e","n","a","i">>

S_anthropic == <<"a","n","t","h","r","o","p","i","c">>

S_openrouter == <<"o","p","e","n","r","o","u","t","e","r">>

S_Ollama == <<"O","l","l","a","m","a">>

S_OpenAI == <<"O","p","e","n","A","I">>

S_Anthropic == <<"A","n","t","h","r","o","p","i","c">>

S_OpenRouter == <<"O","p","e","n","R","o","u","t","e","r">>

S_DynamicSchema == <<"D","y","n","a","m","i","c","S","c","h","e","m","a","_">>

\* uuid.uuid4().hex[:8], two of the values it takes
HexDigests ==
  {<<"0","0","0","0","0","0","0","0">>, <<"d","e","a","d","b","e","e","f">>}

\* the schema_name of a call
DynamicSchemaNames == {S_DynamicSchema \o h : h \in HexDigests}

S_gemma3 == <<"g","e","m","m","a","3",":","1","b">>

\* the options of `if options is None`
DefaultOptions ==
  PyDict(<<Item(S_provider, PyStr(S_ollama)),
           Item(S_model, PyStr(S_gemma3))>>)

\* _get_client_config(options): the client name, or the exception of
\* options.get or of .lower() on a value that has no such method
get_client_config(opts) ==
  IF ~isinstance(opts, "dict") THEN [exc |-> "AttributeError", val |-> <<>>]
  ELSE LET p == get(opts, S_provider, PyStr(S_ollama))
       IN  IF ~isinstance(p, "str") THEN [exc |-> "AttributeError", val |-> <<>>]
           ELSE LET provider == lower(p.s)
                IN  [exc |-> "",
                     val |-> CASE provider = S_ollama -> S_Ollama
                               [] provider = S_openai -> S_OpenAI
                               [] provider = S_anthropic -> S_Anthropic
                               [] provider = S_openrouter -> S_OpenRouter
                               [] OTHER -> S_Ollama]

\* raise DynamicBAMLError(f"Unexpected error: {str(e)}", "unknown") from e
Unexpected(e) ==
  [type |-> "DynamicBAMLError", dynamic |-> TRUE, error_type |-> "unknown",
   message |-> <<"Unexpected error: ">> \o e.message, origin |-> "call_with_schema",
   cause |-> <<e>>, context |-> <<e>>]

\* an except clause that wraps whatever it catches
except_clause_wrap_all(e) == Unexpected(e)

\* the except clause of call_with_schema: what leaves the call when e reaches it
except_clause(e) == IF e.dynamic THEN e ELSE Unexpected(e)

S_gpt4o == <<"g","p","t","-","4","o">>

S_claude ==
  <<"c","l","a","u","d","e","-","3","-","5","-","s","o","n","n","e","t","-",
    "2","0","2","4","1","0","2","2">>

S_gemini ==
  <<"g","o","o","g","l","e","/","g","e","m","i","n","i","-","2",".","0","-",
    "f","l","a","s","h","-","e","x","p">>

S_success == <<"s","u","c","c","e","s","s">>

S_data == <<"d","a","t","a">>

S_error == <<"e","r","r","o","r">>

S_error_type == <<"e","r","r","o","r","_","t","y","p","e">>

\* the default model the else branch of a client block writes
default_model(client) ==
  CASE client = S_Ollama -> S_gemma3
    [] client = S_OpenAI -> S_gpt4o
    [] client = S_Anthropic -> S_claude
    [] client = S_OpenRouter -> S_gemini

\* line 247: self.options = options or {"provider": "ollama", "model": "gemma3:1b"}
project_options(opts) == IF truth(opts) THEN opts ELSE DefaultOptions

\* a value in an f-string: a str as it is, None as its name
format_value(v) == IF isinstance(v, "str") THEN v.s ELSE <<"N","o","n","e">>

\* lines 276-286: the model of the provider at hand, with the provider's
\* default; an unknown provider takes the default of Ollama
provider_model(provider, opts) ==
  get(opts, S_model,
      PyStr(CASE provider = S_openai -> S_gpt4o
              [] provider = S_anthropic -> S_claude
              [] provider = S_ollama -> S_gemma3
              [] provider = S_openrouter -> S_gemini
              [] OTHER -> S_gemma3))

\* client blocks that all take the model of the provider at hand
client_models_all_given(provider, opts) ==
  [client \in {S_Ollama, S_OpenAI, S_Anthropic, S_OpenRouter} |->
     format_value(provider_model(provider, opts))]

\* lines 288-322: the model written into each client block
client_models(provider, opts) ==
  (S_Ollama :> format_value(IF provider = S_ollama THEN get(opts, S_model, PyStr(S_gemma3))
                            ELSE PyStr(S_gemma3)))
  @@ (S_OpenAI :> format_value(IF provider = S_openai THEN provider_model(provider, opts)
                               ELSE PyStr(S_gpt4o)))
  @@ (S_Anthropic :> format_value(IF provider = S_anthropic
                                  THEN provider_model(provider, opts)
                                  ELSE PyStr(S_claude)))
  @@ (S_OpenRouter :> format_value(IF provider = S_openrouter
                                   THEN provider_model(provider, opts)
                                   ELSE PyStr(S_gemini)))

\* clients.baml as __enter__ writes it from self.options
clients_content(opts) ==
  client_models(lower(get(opts, S_provider, PyStr(S_ollama)).s), opts)

\* the project directory of the call
CallProject == 1

\* line 350: sys.path.insert(0, str(self.project_dir))
list_insert_first(path, dir) == <<dir>> \o path

\* lines 373-374: if str(self.project_dir) in sys.path: sys.path.remove(...),
\* which takes the first entry equal to dir away
list_remove(path, dir) ==
  IF \A i \in DOMAIN path : path[i] # dir THEN path
  ELSE LET first == CHOOSE i \in DOMAIN path :
                      path[i] = dir /\ \A j \in 1..(i - 1) : path[j] # dir
       IN  SubSeq(path, 1, first - 1) \o SubSeq(path, first + 1, Len(path))

\* a module of sys.modules: its name and the project directory it was loaded
\* from
Module(name, dir) == [name |-> name, dir |-> dir]

Loaded(modules, name) == {m \in modules : m.name = name}

\* the parent package after `import baml_client`, found first on sys.path in
\* the project directory dir unless sys.modules holds one
with_package(modules, dir) ==
  IF Loaded(modules, "baml_client") # {} THEN modules
  ELSE modules \cup {Module("baml_client", dir)}

\* the submodule, looked up in sys.modules and then in the directory pdir of
\* the parent package; gone are the directories that were removed; the code
\* of a module may raise ImportError when it is executed
submodule_outcomes(modules, pdir, gone) ==
  IF Loaded(modules, "baml_client.sync_client") # {}
  THEN {[ok |-> TRUE, modules |-> modules]}
  ELSE IF pdir \in gone THEN {[ok |-> FALSE, modules |-> modules]}
  ELSE {[ok |-> TRUE, modules |-> modules \cup {Module("baml_client.sync_client", pdir)}],
        [ok |-> FALSE, modules |-> modules]}

package_dir(modules) == (CHOOSE m \in Loaded(modules, "baml_client") : TRUE).dir

\* line 353, import baml_client.sync_client, with dir first on sys.path: the
\* outcomes, each with sys.modules as the import leaves it
import_sync_client(modules, dir, gone) ==
  (IF Loaded(modules, "baml_client") = {} THEN {[ok |-> FALSE, modules |-> modules]} ELSE {})
  \cup submodule_outcomes(with_package(modules, dir),
                          package_dir(with_package(modules, dir)), gone)

\* lines 377-382: every module whose name starts with baml_client is deleted
without_baml_client(modules) ==
  {m \in modules : m.name \notin {"baml_client", "baml_client.sync_client"}}

\* a handler that reports every failure as "unknown"
safe_result_unknown(r) ==
  IF r.kind = "return"
  THEN PyDict(<<Item(S_success, PyBool(TRUE)), Item(S_data, r.data)>>)
  ELSE PyDict(<<Item(S_success, PyBool(FALSE)),
                Item(S_error, PyStr(r.exception.message)),
                Item(S_error_type, PyStr(<<"unknown">>))>>)

\* call_with_schema_safe, lines 185-202: the CallResult for what
\* call_with_schema returned or raised
safe_result(r) ==
  IF r.kind = "return"
  THEN PyDict(<<Item(S_success, PyBool(TRUE)), Item(S_data, r.data)>>)
  ELSE PyDict(<<Item(S_success, PyBool(FALSE)),
                Item(S_error, PyStr(r.exception.message)),
                Item(S_error_type,
                     PyStr(IF r.exception.dynamic THEN <<r.exception.error_type>>
                           ELSE <<"unknown">>))>>)

\* the schema dictionaries of a call: at most one field, and the non-mappings
CallSchemas ==
  {PyDict(items) : items \in ItemsOfSize(0) \cup ItemsOfSize(1)} \cup NonMappingInputs

\* the options of a call: omitted, a provider in either case, an unknown
\* provider, no provider, and values _get_client_config cannot read
OptionInputs ==
  {PyNone,
   PyDict(<<>>),
   PyDict(<<Item(S_provider, PyStr(S_openai))>>),
   PyDict(<<Item(S_provider, PyStr(<<"A","n","t","h","r","o","p","i","c">>)),
            Item(S_model, PyStr(<<"m">>))>>),
   PyDict(<<Item(S_provider, PyStr(<<"z","z">>))>>),
   PyDict(<<Item(S_provider, PyStr(<<"z","z">>)), Item(S_model, PyStr(<<"m">>))>>),
   PyDict(<<Item(S_provider, PyNone)>>),
   PyStr(S_openai)}

\* what the generated function's result converts to
DataInputs == {PyDict(<<>>), PyDict(<<Item(<<"a">>, PyInt(1))>>)}

\* a caller about to call call_with_schema or call_with_schema_safe with
\* (prompt_text, schema_dict, options)
InitCallWithSchema ==
  /\ generated_classes = {}
  /\ indent_level = 0
  /\ schema_dict \in CallSchemas
  /\ schema_name = <<>>
  /\ calls = 0
  /\ outcome = NoOutcome
  /\ InitExecutor
  /\ entry \in {"call_with_schema", "call_with_schema_safe"}
  /\ pc = IF entry = "call_with_schema" THEN "call" ELSE "safe"
  /\ options \in OptionInputs
  /\ baml_code = <<>>
  /\ client_config = <<>>
  /\ pending = NoException
  /\ project_dir = "none"
  /\ cli_runs = 0
  /\ invoked = FALSE
  /\ result = NoResult
  /\ call_result = PyNone
  /\ clients_baml = <<>>
  /\ InitInterpreter
  /\ InitThreads
  /\ InitHeap

\* call_with_schema_safe, lines 179-186: the default options;
\* _configure_logging changes nothing and lets no Exception out; then the
\* call of call_with_schema
SafeConfigureLogging ==
  /\ pc = "safe"
  /\ options' = IF options = PyNone THEN DefaultOptions ELSE options
  /\ pc' = "call"
  /\ UNCHANGED <<generator_vars, executor_vars, baml_code, client_config, pending,
                 project_dir, cli_runs, invoked, result, entry, call_result, clients_baml,
                 interpreter_vars, thread_vars, heap_vars>>

\* lines 116-120: the default options; _configure_logging changes nothing and
\* lets no Exception out
ConfigureLogging ==
  /\ pc = "call"
  /\ options' = IF options = PyNone THEN DefaultOptions ELSE options
  /\ pc' = "generate_schema"
  /\ UNCHANGED <<generator_vars, executor_vars, baml_code, client_config, pending,
                 project_dir, cli_runs, invoked, result, entry, call_result, clients_baml,
                 interpreter_vars, thread_vars, heap_vars>>

\* lines 124-129: a new name, a new generator, generate_schema
CallGenerateSchema ==
  /\ pc = "generate_schema"
  /\ \E name \in DynamicSchemaNames : Call(schema_dict, name)
  /\ IF outcome'.kind = "raise"
     THEN /\ pending' = Raise(outcome'.exc, TRUE, "schema_generation", "generate_schema",
                              <<>>, NoException)
          /\ pc' = "except"
          /\ UNCHANGED baml_code
     ELSE /\ baml_code' = outcome'.text
          /\ pc' = "get_client_config"
          /\ UNCHANGED pending
  /\ UNCHANGED <<executor_vars, options, client_config, project_dir, cli_runs, invoked, result,
                 entry, call_result, clients_baml, interpreter_vars, thread_vars, heap_vars>>

\* lines 132-140: the client of the extraction function
GetClientConfig ==
  /\ pc = "get_client_config"
  /\ LET c == get_client_config(options)
     IN  IF c.exc # ""
         THEN /\ pending' = Raise(c.exc, FALSE, "", "_get_client_config", <<>>, NoException)
              /\ pc' = "except"
              /\ UNCHANGED client_config
         ELSE /\ client_config' = c.val
              /\ pc' = "mkdtemp"
              /\ UNCHANGED pending
  /\ UNCHANGED <<generator_vars, executor_vars, options, baml_code, project_dir, cli_runs,
                 invoked, result, entry, call_result, clients_baml, interpreter_vars,
                 thread_vars, heap_vars>>

\* __enter__, line 253: tempfile.mkdtemp, outside the try of __enter__
MakeTempDir ==
  /\ pc = "mkdtemp"
  /\ \/ /\ project_dir' = "exists"
        /\ pc' = "write_files"
        /\ UNCHANGED pending
     \/ /\ pending' = Raise("OSError", FALSE, "", "mkdtemp", <<>>, NoException)
        /\ pc' = "except"
        /\ UNCHANGED project_dir
  /\ UNCHANGED <<generator_vars, executor_vars, options, baml_code, client_config, cli_runs,
                 invoked, result, entry, call_result, clients_baml, interpreter_vars,
                 thread_vars, heap_vars>>

\* __enter__, lines 257-323: baml_src and its three files; clients.baml is
\* the last of them
WriteFiles ==
  /\ pc = "write_files"
  /\ \/ /\ clients_baml' = clients_content(project_options(options))
        /\ pc' = "run_cli"
        /\ UNCHANGED pending
     \/ /\ pending' = Raise("OSError", FALSE, "", "write_text", <<>>, NoException)
        /\ pc' = "enter_cleanup"
        /\ UNCHANGED clients_baml
  /\ UNCHANGED <<generator_vars, executor_vars, options, baml_code, client_config,
                 project_dir, cli_runs, invoked, result, entry, call_result,
                 interpreter_vars, thread_vars, heap_vars>>

\* the exceptions of lines 326-347: subprocess.run finds no baml-cli or times
\* out, baml-cli exits with a non-zero code, or it leaves no baml_client
CliFailures ==
  {Raise("FileNotFoundError", FALSE, "", "subprocess.run", <<>>, NoException),
   Raise("TimeoutExpired", FALSE, "", "subprocess.run", <<>>, NoException),
   Raise("BAMLCompilationError", TRUE, "baml_compilation", "returncode", <<>>, NoException),
   Raise("BAMLCompilationError", TRUE, "baml_compilation", "client_dir", <<>>, NoException)}

\* __enter__, lines 326-347: baml-cli generate
RunCli ==
  /\ pc = "run_cli"
  /\ cli_runs' = cli_runs + 1
  /\ \/ /\ pc' = "import"
        /\ UNCHANGED pending
     \/ /\ pending' \in CliFailures
        /\ pc' = "enter_cleanup"
  /\ UNCHANGED <<generator_vars, executor_vars, options, baml_code, client_config,
                 project_dir, invoked, result, entry, call_result, clients_baml,
                 interpreter_vars, thread_vars, heap_vars>>

\* __enter__, lines 350-361: sys.path.insert and the import of the generated
\* client
ImportClient ==
  /\ pc = "import"
  /\ sys_path' = list_insert_first(sys_path, CallProject)
  /\ \E o \in import_sync_client(sys_modules, CallProject, {}) :
       /\ sys_modules' = o.modules
       /\ IF o.ok
          THEN /\ pc' = "body"
               /\ UNCHANGED pending
          ELSE /\ pending' = Raise("BAMLCompilationError", TRUE, "baml_compilation", "import",
                                   <<Raise("ImportError", FALSE, "", "import", <<>>,
                                           NoException)>>,
                                   NoException)
               /\ pc' = "enter_cleanup"
  /\ UNCHANGED <<generator_vars, executor_vars, options, baml_code, client_config,
                 project_dir, cli_runs, invoked, result, entry, call_result, clients_baml,
                 thread_vars, heap_vars>>

\* an except clause of __enter__ that only re-raises
EnterCleanup_no_rmtree ==
  /\ pc = "enter_cleanup"
  /\ pc' = "except"
  /\ UNCHANGED <<generator_vars, executor_vars, options, baml_code, client_config, cli_runs,
                 invoked, result, entry, call_result, clients_baml, interpreter_vars,
                 thread_vars, heap_vars, pending, project_dir>>

\* __enter__, lines 363-367: rmtree, then the exception goes on; an exception
\* of rmtree takes its place
EnterCleanup ==
  /\ pc = "enter_cleanup"
  /\ \/ /\ project_dir' = "removed"
        /\ UNCHANGED pending
     \/ /\ pending' = Raise("OSError", FALSE, "", "rmtree", <<>>, pending)
        /\ UNCHANGED project_dir
  /\ pc' = "except"
  /\ UNCHANGED <<generator_vars, executor_vars, options, baml_code, client_config, cli_runs,
                 invoked, result, entry, call_result, clients_baml, interpreter_vars,
                 thread_vars, heap_vars>>

\* the exceptions of lines 145-154 once the function is called: its own, of
\* either kind, and that of dict(result)
BodyFailures ==
  {Raise("Exception", FALSE, "", "extract_function", <<>>, NoException),
   Raise("LLMProviderError", TRUE, "llm_provider", "extract_function", <<>>, NoException),
   Raise("TypeError", FALSE, "", "dict", <<>>, NoException)}

\* lines 145-154, the body of the with statement: getattr, the call of the
\* generated function, the conversion of its result
WithBody ==
  /\ pc = "body"
  /\ \/ /\ pending' = Raise("AttributeError", FALSE, "", "getattr", <<>>, NoException)
        /\ UNCHANGED <<invoked, result>>
     \/ /\ invoked' = TRUE
        /\ pending' \in BodyFailures
        /\ UNCHANGED result
     \/ /\ invoked' = TRUE
        /\ \E data \in DataInputs :
             result' = [kind |-> "returning", data |-> data, exception |-> NoException]
        /\ UNCHANGED pending
  /\ pc' = "exit"
  /\ UNCHANGED <<generator_vars, executor_vars, options, baml_code, client_config,
                 project_dir, cli_runs, entry, call_result, clients_baml, interpreter_vars,
                 thread_vars, heap_vars>>

\* __exit__, lines 369-385: the project's entry leaves sys.path, the
\* baml_client modules leave sys.modules, then rmtree; __exit__ returns None,
\* so an exception of the body goes on, and an exception of rmtree takes the
\* place of the exception or of the return value
ExitProject ==
  /\ pc = "exit"
  /\ sys_path' = list_remove(sys_path, CallProject)
  /\ sys_modules' = without_baml_client(sys_modules)
  /\ \/ /\ project_dir' = "removed"
        /\ IF pending = NoException
           THEN /\ result' = [result EXCEPT !.kind = "return"]
                /\ pc' = "done"
           ELSE /\ pc' = "except"
                /\ UNCHANGED result
        /\ UNCHANGED pending
     \/ /\ pending' = Raise("OSError", FALSE, "", "rmtree", <<>>, pending)
        /\ result' = NoResult
        /\ pc' = "except"
        /\ UNCHANGED project_dir
  /\ UNCHANGED <<generator_vars, executor_vars, options, baml_code, client_config, cli_runs,
                 invoked, entry, call_result, clients_baml, thread_vars, heap_vars>>

\* lines 156-160: the except clause
Except ==
  /\ pc = "except"
  /\ result' = [kind |-> "raise", data |-> PyNone, exception |-> except_clause(pending)]
  /\ pc' = "done"
  /\ UNCHANGED <<generator_vars, executor_vars, options, baml_code, client_config, pending,
                 project_dir, cli_runs, invoked, entry, call_result, clients_baml,
                 interpreter_vars, thread_vars, heap_vars>>

\* call_with_schema_safe, lines 185-202: what call_with_schema returned or
\* raised becomes the CallResult
SafeReturn ==
  /\ pc = "done"
  /\ entry = "call_with_schema_safe"
  /\ call_result' = safe_result(result)
  /\ pc' = "returned"
  /\ UNCHANGED <<generator_vars, executor_vars, options, baml_code, client_config, pending,
                 project_dir, cli_runs, invoked, result, entry, clients_baml,
                 interpreter_vars, thread_vars, heap_vars>>

NextCall ==
  \/ SafeConfigureLogging
  \/ ConfigureLogging
  \/ CallGenerateSchema
  \/ GetClientConfig
  \/ MakeTempDir
  \/ WriteFiles
  \/ RunCli
  \/ ImportClient
  \/ EnterCleanup
  \/ WithBody
  \/ ExitProject
  \/ Except
  \/ SafeReturn

SpecCall == InitCallWithSchema /\ [][NextCall]_vars

(***************************************************************************)
(* generate_schema on dictionaries that may contain themselves.  The       *)
(* dictionaries of the input are objects with an identity (heap): a value  *)
(* of a dictionary is a leaf or a reference to a dictionary, its own       *)
(* included.  _generate_class runs one statement group at a time on a call *)
(* stack: entering a class (lines 45-64), one round of the nested-classes  *)
(* loop (lines 67-75), and the return (lines 78-83).                       *)
(***************************************************************************)
\* dictionaries of an input
MaxHeapNodes == 2

HeapIds == 1..MaxHeapNodes

\* a reference to the dictionary id
Ref(id) == PyVal("ref", <<>>, id, <<>>)

Refs == {Ref(id) : id \in HeapIds}

\* the values of a dictionary: a primitive, a bare number, a reference
HeapValues == {PyStr(S_int), PyInt(5)} \cup Refs

\* the entries of one dictionary: empty, one field, two fields holding
\* dictionaries, an optional wrapper, a dictionary under the key "type" or
\* "optional", an enumeration descriptor
NodeShapes ==
  {<<>>}
  \cup {<<Item(k, v)>> : k \in FieldNames, v \in HeapValues}
  \cup {<<Item(<<"a">>, r1), Item(<<"b">>, r2)>> : r1 \in Refs, r2 \in Refs}
  \cup {<<Item(S_type, v), Item(S_optional, PyBool(TRUE))>> : v \in HeapValues}
  \cup {<<Item(S_type, r)>> : r \in Refs}
  \cup {<<Item(S_optional, r)>> : r \in Refs}
  \cup {<<Item(S_type, PyStr(S_enum)), Item(S_values, PyList(<<PyStr(<<"x">>)>>))>>}

Heaps == [HeapIds -> NodeShapes]

RECURSIVE view(_, _, _)
\* the value v as the tests of one _parse_field_definition or
\* _generate_nested_classes call read it: the dictionaries down to the given
\* depth, what lies deeper being of no account to them
view(h, v, depth) ==
  IF v.k # "ref" THEN v
  ELSE IF depth = 0 THEN PyDict(<<>>)
  ELSE PyDict([i \in DOMAIN h[v.n] |-> Item(h[v.n][i].key, view(h, h[v.n][i].val, depth - 1))])

\* lines 155-167: the dictionary _generate_nested_classes hands to
\* _generate_class for the field value v, 0 when it hands none
nested_target(h, v) ==
  IF v.k # "ref" THEN 0
  ELSE IF get(PyDict(h[v.n]), S_type, PyNone) = PyStr(S_enum) THEN 0
  ELSE IF ~contains(PyDict(h[v.n]), S_type) THEN v.n
  ELSE IF get(PyDict(h[v.n]), S_type, PyNone).k = "ref"
  THEN get(PyDict(h[v.n]), S_type, PyNone).n
  ELSE 0

\* a test that finds no class name generated
never_generated(class_name, gc) == FALSE

\* line 45: if class_name in self.generated_classes
already_generated(class_name, gc) == class_name \in gc

\* a call of _generate_class past line 48: the dictionary, the class name,
\* the lines of the class, the round of the nested-classes loop and the
\* nested_classes list
Frame(node, class_name, lines) ==
  [node |-> node, name |-> class_name, lines |-> lines, i |-> 1, codes |-> <<>>]

\* lines 78-83: the text the call returns
class_text(frame) ==
  join(NL, frame.codes)
    \o (IF frame.codes # <<>> THEN NL \o NL ELSE <<>>)
    \o join(NL, << S_class_kw \o <<" ">> \o frame.name \o <<" ", "{">> >>
                 \o frame.lines \o << <<"}">> >>)

(***************************************************************************)
(* generate_schema on a dictionary that may contain itself, statement      *)
(* group by statement group.                                               *)
(***************************************************************************)
InitHeapCall ==
  /\ generated_classes = {}
  /\ indent_level = 0
  /\ schema_dict = Ref(1)
  /\ schema_name = <<"R">>
  /\ calls = 0
  /\ outcome = NoOutcome
  /\ InitExecutor
  /\ InitCall
  /\ InitInterpreter
  /\ InitThreads
  /\ heap \in Heaps
  /\ stack = <<>>
  /\ expansions = 0

\* the except clause of generate_schema: the call stack is unwound
RaiseSchemaGenerationError ==
  /\ stack' = <<>>
  /\ outcome' = Raised("SchemaGenerationError", schema_dict)

\* lines 50-66 with the outcome fl of the field loop: the call goes on to
\* its nested-classes loop, above the calls that wait for it
EnterWith(fl, node, class_name, below) ==
  IF fl.exc # "" THEN RaiseSchemaGenerationError
  ELSE /\ stack' = <<Frame(node, class_name, fl.lines)>> \o below
       /\ UNCHANGED outcome

\* lines 48-66: _generate_class past the test of line 45
EnterClass(node, class_name, gc, below) ==
  /\ generated_classes' = gc \cup {class_name}
  /\ expansions' = expansions + 1
  /\ \E fl \in {field_lines(view(heap, Ref(node), 3).items)} :
       EnterWith(fl, node, class_name, below)

\* lines 28-33: generate_schema clears the set and calls _generate_class
GenerateSchemaOnHeap ==
  /\ calls = 0
  /\ calls' = 1
  /\ indent_level' = 0
  /\ EnterClass(schema_dict.n, schema_name, {}, <<>>)
  /\ UNCHANGED <<schema_dict, schema_name, executor_vars, call_vars, interpreter_vars,
                 thread_vars, heap>>

\* the calling frame with its round done and a returned text appended to
\* nested_classes when it is not empty
NextRound(frame, text) ==
  [frame EXCEPT !.i = @ + 1, !.codes = IF text # <<>> THEN Append(@, text) ELSE @]

\* lines 144-153 and the fall-through of 155-167 with the outcome r of
\* _generate_nested_classes for a value that leads to no _generate_class
NoNestedClass(r) ==
  /\ IF r.exc # "" THEN RaiseSchemaGenerationError
     ELSE /\ stack' = <<NextRound(Head(stack), r.text)>> \o Tail(stack)
          /\ UNCHANGED outcome
  /\ UNCHANGED <<generated_classes, expansions>>

\* lines 155-167: _generate_class(node, class_name) is called; it returns ""
\* at line 46 when the name was generated before
NestedClass(node, class_name) ==
  IF already_generated(class_name, generated_classes)
  THEN /\ stack' = <<NextRound(Head(stack), <<>>)>> \o Tail(stack)
       /\ UNCHANGED <<generated_classes, expansions, outcome>>
  ELSE EnterClass(node, class_name, generated_classes,
                  <<NextRound(Head(stack), <<>>)>> \o Tail(stack))

\* lines 68-75: one round of the nested-classes loop for the field item
NestedRound(item) ==
  IF item.val = PyNone
  THEN /\ stack' = <<NextRound(Head(stack), <<>>)>> \o Tail(stack)
       /\ UNCHANGED <<generated_classes, expansions, outcome>>
  ELSE IF nested_target(heap, item.val) = 0
  THEN \E r \in {generate_nested_classes(view(heap, item.val, 3), item.key,
                                          generated_classes)} : NoNestedClass(r)
  ELSE NestedClass(nested_target(heap, item.val), title(item.key) \o S_Class)

NestedField ==
  /\ stack # <<>>
  /\ Head(stack).i <= Len(heap[Head(stack).node])
  /\ \E item \in {heap[Head(stack).node][Head(stack).i]} : NestedRound(item)
  /\ UNCHANGED <<indent_level, schema_dict, schema_name, calls, executor_vars, call_vars,
                 interpreter_vars, thread_vars, heap>>

\* lines 78-83: the call returns its text, to the round of the calling
\* frame that waits for it or to generate_schema
ReturnClass ==
  /\ stack # <<>>
  /\ Head(stack).i > Len(heap[Head(stack).node])
  /\ IF Tail(stack) = <<>>
     THEN /\ stack' = <<>>
          /\ outcome' = Returned(class_text(Head(stack)))
     ELSE /\ stack' = <<[stack[2] EXCEPT !.codes = Append(@, class_text(Head(stack)))]>>
                      \o Tail(Tail(stack))
          /\ UNCHANGED outcome
  /\ UNCHANGED <<generated_classes, indent_level, schema_dict, schema_name, calls,
                 executor_vars, call_vars, interpreter_vars, thread_vars, heap, expansions>>

NextHeap == GenerateSchemaOnHeap \/ NestedField \/ ReturnClass

\* the interpreter runs the next statement of the one thread of the call
SpecHeap == InitHeapCall /\ [][NextHeap]_vars /\ WF_vars(NextHeap)

(***************************************************************************)
(* Two call_with_schema invocations in two threads of one process.  Each   *)
(* thread has its own generator, schema name, function name and project    *)
(* directory (mkdtemp); sys.path and sys.modules belong to the process.    *)
(* A thread runs one statement group at a time and the interpreter may     *)
(* switch threads between any two of them.  baml-cli and the generated     *)
(* code are taken to work: an import fails only when the directory it      *)
(* reads was removed.                                                      *)
(***************************************************************************)
\* threads that call call_with_schema
NumThreads == 2

Threads == 1..NumThreads

\* a call: its place in the code, whether its project directory exists, the
\* project the module bound to self.client_module was loaded from (0: none),
\* the names in modules_to_remove, the project whose extraction function it
\* invoked (0: none) and the exception it ends with ("": none)
Thread(at, exists, client, to_remove, invoked_project, exc) ==
  [pc |-> at, exists |-> exists, client |-> client, to_remove |-> to_remove,
   invoked |-> invoked_project, exc |-> exc]

\* the project directories that were removed
removed_dirs == {t \in Threads : threads[t].pc # "start" /\ ~threads[t].exists}

\* the first directory of sys.path that holds a baml_client package
first_on_path(path, gone) ==
  path[CHOOSE i \in DOMAIN path :
         path[i] \notin gone /\ \A j \in 1..(i - 1) : path[j] \in gone]

\* the outcomes of an import whose modules' code raises nothing
good_client(outcomes) ==
  IF \E o \in outcomes : o.ok THEN {o \in outcomes : o.ok} ELSE outcomes

\* the names of sys.modules that start with baml_client
baml_client_names(modules) ==
  {m.name : m \in {x \in modules : x.name \in {"baml_client", "baml_client.sync_client"}}}

InitThreadCalls ==
  /\ generated_classes = {}
  /\ indent_level = 0
  /\ schema_dict = PyDict(<<>>)
  /\ schema_name = <<>>
  /\ calls = 0
  /\ outcome = NoOutcome
  /\ InitExecutor
  /\ InitCall
  /\ InitInterpreter
  /\ InitHeap
  /\ threads = [t \in Threads |-> Thread("start", FALSE, 0, {}, 0, "")]

\* what no thread of the two calls touches
ThreadFrame == UNCHANGED <<generator_vars, executor_vars, call_vars, heap_vars>>

\* lines 124-140 and __enter__, lines 253-347: the schema and function text,
\* mkdtemp, the files and baml-cli generate
ThreadMakeProject(t) ==
  /\ threads[t].pc = "start"
  /\ threads' = [threads EXCEPT ![t] = Thread("insert", TRUE, 0, {}, 0, "")]
  /\ UNCHANGED interpreter_vars
  /\ ThreadFrame

\* line 350: sys.path.insert(0, str(self.project_dir))
ThreadInsertPath(t) ==
  /\ threads[t].pc = "insert"
  /\ sys_path' = list_insert_first(sys_path, t)
  /\ threads' = [threads EXCEPT ![t].pc = "import"]
  /\ UNCHANGED sys_modules
  /\ ThreadFrame

\* lines 352-361: import baml_client.sync_client binds what sys.modules or
\* the first project of sys.path gives; lines 355-359 and 363-367 when it
\* raises ImportError
ThreadImportClient(t) ==
  /\ threads[t].pc = "import"
  /\ \E o \in good_client(import_sync_client(sys_modules,
                                             first_on_path(sys_path, removed_dirs),
                                             removed_dirs)) :
       /\ sys_modules' = o.modules
       /\ threads' = [threads EXCEPT ![t] =
            IF o.ok
            THEN [@ EXCEPT !.pc = "body",
                           !.client = (CHOOSE m \in Loaded(o.modules, "baml_client.sync_client") :
                                          TRUE).dir]
            ELSE [@ EXCEPT !.pc = "done", !.exists = FALSE,
                           !.exc = "BAMLCompilationError"]]
  /\ UNCHANGED sys_path
  /\ ThreadFrame

\* lines 145-154: getattr(client_module.b, function_name) finds the function
\* in the client generated from the thread's own schema only; elsewhere it
\* raises AttributeError
ThreadBody(t) ==
  /\ threads[t].pc = "body"
  /\ threads' = [threads EXCEPT ![t] =
       IF @.client = t
       THEN [@ EXCEPT !.pc = "exit", !.invoked = t]
       ELSE [@ EXCEPT !.pc = "exit", !.exc = "AttributeError"]]
  /\ UNCHANGED interpreter_vars
  /\ ThreadFrame

\* __exit__, lines 371-380: the thread's entry leaves sys.path and
\* modules_to_remove is built from the keys of sys.modules
ThreadExitPath(t) ==
  /\ threads[t].pc = "exit"
  /\ sys_path' = list_remove(sys_path, t)
  /\ threads' = [threads EXCEPT ![t].pc = "exit_modules",
                                ![t].to_remove = baml_client_names(sys_modules)]
  /\ UNCHANGED sys_modules
  /\ ThreadFrame

\* lines 381-382: del sys.modules[module_name] for each name, KeyError for a
\* name that is no longer a key; the KeyError leaves __exit__ before rmtree
\* and call_with_schema raises it as DynamicBAMLError at line 160
ThreadExitModules(t) ==
  /\ threads[t].pc = "exit_modules"
  /\ IF threads[t].to_remove \subseteq baml_client_names(sys_modules)
     THEN /\ sys_modules' = {m \in sys_modules : m.name \notin threads[t].to_remove}
          /\ threads' = [threads EXCEPT ![t].pc = "rmtree"]
     ELSE /\ threads' = [threads EXCEPT ![t].pc = "done", ![t].exc = "KeyError"]
          /\ UNCHANGED sys_modules
  /\ UNCHANGED sys_path
  /\ ThreadFrame

\* line 385: shutil.rmtree(self.project_dir); then the return value or the
\* exception of the body leaves call_with_schema
ThreadRmtree(t) ==
  /\ threads[t].pc = "rmtree"
  /\ threads' = [threads EXCEPT ![t].pc = "done", ![t].exists = FALSE]
  /\ UNCHANGED interpreter_vars
  /\ ThreadFrame

NextThreads ==
  \E t \in Threads :
    \/ ThreadMakeProject(t)
    \/ ThreadInsertPath(t)
    \/ ThreadImportClient(t)
    \/ ThreadBody(t)
    \/ ThreadExitPath(t)
    \/ ThreadExitModules(t)
    \/ ThreadRmtree(t)

SpecThreads == InitThreadCalls /\ [][NextThreads]_vars

(***************************************************************************)
(* Reading the returned text: lines, blocks and field lines.               *)
(***************************************************************************)
Lines(text) == split(text, "\n")

HeaderKind(line) ==
  IF StartsWith(line, S_class_kw \o <<" ">>) /\ EndsWith(line, <<" ", "{">>) THEN "class"
  ELSE IF StartsWith(line, S_enum \o <<" ">>) /\ EndsWith(line, <<" ", "{">>) THEN "enum"
  ELSE ""

HeaderName(line) ==
  IF HeaderKind(line) = "class" THEN SubSeq(line, 7, Len(line) - 2)
  ELSE SubSeq(line, 6, Len(line) - 2)

\* the blocks of a text in text order: kind, name and body lines
Blocks(text) ==
  LET L == Lines(text)
      H == {i \in DOMAIN L : HeaderKind(L[i]) # ""}
      start(j) == CHOOSE i \in H : Cardinality({k \in H : k < i}) = j - 1
      close(h) == CHOOSE j \in (h + 1)..Len(L) :
                    L[j] = <<"}">> /\ \A k \in (h + 1)..(j - 1) : L[k] # <<"}">>
  IN  [j \in 1..Cardinality(H) |->
         [kind |-> HeaderKind(L[start(j)]),
          name |-> HeaderName(L[start(j)]),
          body |-> SubSeq(L, start(j) + 1, close(start(j)) - 1)]]

\* a field line is two spaces, the name, a space, the type
FieldTypeText(line) ==
  SubSeq(line, FirstIndex(SubSeq(line, 3, Len(line)), " ") + 3, Len(line))

\* the type of a field line without the optional mark
FieldType(line) ==
  LET t == FieldTypeText(line)
  IN  IF EndsWith(t, <<"?">>) THEN SubSeq(t, 1, Len(t) - 1) ELSE t

\* the fields of a mapping that are not None, in declaration order
RECURSIVE NotNone(_)
NotNone(items) ==
  IF items = <<>> THEN <<>>
  ELSE IF items[1].val = PyNone THEN NotNone(Tail(items))
  ELSE <<items[1]>> \o NotNone(Tail(items))

(***************************************************************************)
(* C1: generate_schema called with a top-level input that is not a mapping *)
(* raises SchemaGenerationError, never another exception type and never    *)
(* returns text, and the error's schema_dict is the offending input.       *)
(***************************************************************************)
C1_NonMappingRaises ==
  (calls > 0 /\ ~isinstance(schema_dict, "dict"))
    => outcome = Raised("SchemaGenerationError", schema_dict)

C1_Witness ==
  /\ calls > 0
  /\ isinstance(schema_dict, "str")
  /\ outcome.kind = "raise"

(***************************************************************************)
(* The shapes of a field specification, as the specification classifies    *)
(* them (by the reserved keys "type" and "optional").                      *)
(***************************************************************************)
\* a mapping from field names to specifications: no reserved key
IsNestedObject(v) ==
  isinstance(v, "dict") /\ ~contains(v, S_type) /\ ~contains(v, S_optional)

\* an enumeration descriptor: the discriminator "type": "enum"
IsEnumDescriptor(v) ==
  isinstance(v, "dict") /\ get(v, S_type, PyNone) = PyStr(S_enum)

\* a specification under "type" with a boolean "optional" flag
IsOptionalWrapper(v) ==
  /\ isinstance(v, "dict")
  /\ KeysOf(v.items) = {S_type, S_optional}
  /\ isinstance(get(v, S_optional, PyNone), "bool")

\* a primitive tag, or a single-element array of one
IsPrimitive(v) ==
  \/ isinstance(v, "str")
  \/ isinstance(v, "list") /\ Len(v.items) = 1 /\ isinstance(v.items[1].val, "str")

RECURSIVE PlainMapping(_)
\* every dict in the mapping is a nested object, an enumeration descriptor
\* without a flag, or an optional wrapper around one of these or a leaf
PlainMapping(d) ==
  \A i \in DOMAIN d.items :
    LET v == d.items[i].val
        u == IF IsOptionalWrapper(v) THEN get(v, S_type, PyNone) ELSE v
    IN  \/ ~isinstance(u, "dict")
        \/ IsEnumDescriptor(u) /\ ~contains(u, S_optional)
        \/ IsNestedObject(u) /\ PlainMapping(u)

(***************************************************************************)
(* C2: in the text of a successful call, for every field whose unwrapped   *)
(* specification is a nested-object descriptor, a block defining the       *)
(* referenced class exists and comes strictly before the block that holds  *)
(* the referencing field line; the root block is last.                     *)
(***************************************************************************)
C2_DependencyOrder ==
  (calls > 0 /\ outcome.kind = "return" /\ isinstance(schema_dict, "dict")
     /\ PlainMapping(schema_dict))
    => LET B == Blocks(outcome.text)
       IN  /\ B # <<>>
           /\ B[Len(B)].kind = "class"
           /\ B[Len(B)].name = schema_name
           /\ \A p \in DOMAIN B :
                 B[p].kind = "class" =>
                   \A l \in DOMAIN B[p].body :
                     EndsWith(FieldType(B[p].body[l]), S_Class) =>
                       \E q \in 1..(p - 1) :
                         /\ B[q].kind = "class"
                         /\ B[q].name = FieldType(B[p].body[l])

(***************************************************************************)
(* C3: in the text of a successful call every unit name is defined by at   *)
(* most one block, class or enum.                                          *)
(***************************************************************************)
C3_UniqueUnitNames ==
  (calls > 0 /\ outcome.kind = "return")
    => LET B == Blocks(outcome.text)
       IN  \A p, q \in DOMAIN B : p # q => B[p].name # B[q].name

(***************************************************************************)
(* C4: a mapping whose field specifications are only primitives, single-   *)
(* element arrays of primitives, optional wrappers around those, or None   *)
(* compiles to exactly one block, class R, with exactly one field line per *)
(* field that is not None, in declaration order.  (A mapping that carries  *)
(* the discriminator "type": "enum" is an enumeration descriptor, not a    *)
(* wrapper around a primitive.)                                            *)
(***************************************************************************)
PrimitivesOnly(d) ==
  /\ isinstance(d, "dict")
  /\ \A i \in DOMAIN d.items :
        LET v == d.items[i].val
        IN  \/ v = PyNone
            \/ IsPrimitive(v)
            \/ /\ IsOptionalWrapper(v)
               /\ ~IsEnumDescriptor(v)
               /\ IsPrimitive(get(v, S_type, PyNone))

C4_OneBlockOneLinePerField ==
  (calls > 0 /\ PrimitivesOnly(schema_dict))
    => /\ outcome.kind = "return"
       /\ LET L == Lines(outcome.text)
               fields == NotNone(schema_dict.items)
           IN  /\ Len(L) = Len(fields) + 2
               /\ L[1] = S_class_kw \o <<" ">> \o schema_name \o <<" ", "{">>
               /\ L[Len(L)] = <<"}">>
               /\ \A i \in DOMAIN fields :
                     /\ StartsWith(L[i + 1], <<" ", " ">> \o fields[i].key \o <<" ">>)
                     /\ HeaderKind(L[i + 1]) = ""

C4_Witness ==
  /\ calls > 0
  /\ PrimitivesOnly(schema_dict)
  /\ Len(schema_dict.items) = 2
  /\ Len(NotNone(schema_dict.items)) = 2
  /\ \E i \in DOMAIN schema_dict.items : IsOptionalWrapper(schema_dict.items[i].val)
  /\ outcome.kind = "return"

(***************************************************************************)
(* C6: primitive type mapping is total and never raises: string/str map to *)
(* string, int/integer to int, float/double to float, bool/boolean to      *)
(* bool, every other string to string; the field line is `name T` for a    *)
(* bare tag and `name T[]` for a single-element array.                     *)
(***************************************************************************)
C6_TypeTable(t) ==
  IF t \in {S_int, S_integer} THEN S_int
  ELSE IF t \in {S_float, S_double} THEN S_float
  ELSE IF t \in {S_bool, S_boolean} THEN S_bool
  ELSE S_string

C6_FieldLine(item) ==
  <<" ", " ">> \o item.key \o <<" ">>
    \o (IF isinstance(item.val, "str") THEN C6_TypeTable(item.val.s)
        ELSE C6_TypeTable(item.val.items[1].val.s) \o <<"[", "]">>)

C6_PrimitiveMappingTotal ==
  (calls > 0 /\ isinstance(schema_dict, "dict")
     /\ \A i \in DOMAIN schema_dict.items : IsPrimitive(schema_dict.items[i].val))
    => /\ outcome.kind = "return"
       /\ LET L == Lines(outcome.text)
           IN  /\ Len(L) = Len(schema_dict.items) + 2
               /\ \A i \in DOMAIN schema_dict.items :
                     L[i + 1] = C6_FieldLine(schema_dict.items[i])

C6_Witness ==
  /\ calls > 0
  /\ schema_dict = PyDict(<<Item(<<"f">>, PyList(<<PyStr(<<"I","n","t">>)>>))>>)
  /\ outcome.kind = "return"

(***************************************************************************)
(* C7: each enum value is emitted as the member token obtained by          *)
(* uppercasing it and replacing every maximal run of characters that are   *)
(* not letters or digits with a single underscore; the enum block lists    *)
(* one token per value in input order.                                     *)
(***************************************************************************)
RECURSIVE C7_Collapse(_, _)
\* u with every run of non-alphanumeric characters replaced by one "_";
\* inRun tells that the character before u[1] was not alphanumeric
C7_Collapse(u, inRun) ==
  IF u = <<>> THEN <<>>
  ELSE IF IsAlnum(u[1]) THEN <<u[1]>> \o C7_Collapse(Tail(u), FALSE)
  ELSE IF inRun THEN C7_Collapse(Tail(u), TRUE)
  ELSE <<"_">> \o C7_Collapse(Tail(u), TRUE)

C7_Token(value) == C7_Collapse(upper(value), FALSE)

\* an enumeration descriptor whose values are a list of strings
IsStringEnum(v) ==
  /\ IsEnumDescriptor(v)
  /\ ~contains(v, S_optional)
  /\ isinstance(get(v, S_values, PyNone), "list")
  /\ \A i \in DOMAIN get(v, S_values, PyNone).items :
        isinstance(get(v, S_values, PyNone).items[i].val, "str")

C7_EnumMemberTokens ==
  (calls > 0 /\ isinstance(schema_dict, "dict"))
    => \A i \in DOMAIN schema_dict.items :
         IsStringEnum(schema_dict.items[i].val) =>
           /\ outcome.kind = "return"
           /\ LET values == iterate(get(schema_dict.items[i].val, S_values, PyNone))
                  B == Blocks(outcome.text)
              IN  \E p \in DOMAIN B :
                    /\ B[p].kind = "enum"
                    /\ B[p].name = title(schema_dict.items[i].key) \o S_Enum
                    /\ Len(B[p].body) = Len(values)
                    /\ \A j \in DOMAIN values :
                          B[p].body[j] = <<" ", " ">> \o C7_Token(values[j].s)

(***************************************************************************)
(* C5: a field whose specification is None, in the root mapping or in any  *)
(* nested-object mapping, contributes nothing to the output: the call      *)
(* behaves as if the None fields were not in their mappings.               *)
(***************************************************************************)
RECURSIVE C5_WithoutNone(_)
\* the mapping d without its None fields, and likewise in every nested-object
\* mapping under it (bare, or under the "type" key of an optional marker)
C5_WithoutNone(d) ==
  LET unwrapped(u) ==
        IF isinstance(u, "dict") /\ ~IsEnumDescriptor(u) THEN C5_WithoutNone(u) ELSE u
      spec(v) ==
        IF isinstance(v, "dict") /\ contains(v, S_optional) /\ contains(v, S_type)
        THEN PyDict([i \in DOMAIN v.items |->
                       IF v.items[i].key = S_type
                       THEN Item(S_type, unwrapped(v.items[i].val))
                       ELSE v.items[i]])
        ELSE unwrapped(v)
      kept == NotNone(d.items)
  IN  PyDict(IF kept = <<>> THEN <<>>
             ELSE [i \in DOMAIN kept |-> Item(kept[i].key, spec(kept[i].val))])

C5_NoneFieldsAbsent ==
  (calls > 0 /\ isinstance(schema_dict, "dict"))
    => LET without == generate_schema(C5_WithoutNone(schema_dict), schema_name, {}).outcome
       IN  /\ outcome.kind = without.kind
           /\ outcome.text = without.text

(***************************************************************************)
(* C8: for a field specification S that compiles on its own (primitive,    *)
(* single-element array, enumeration descriptor, nested-object             *)
(* descriptor), compiling {"type": S, "optional": true} in its place       *)
(* succeeds, renders the field's line as S's line with `?` appended and    *)
(* emits the same dependency blocks; with "optional": false the output is  *)
(* that of S.                                                              *)
(***************************************************************************)
\* d with the specification of its i-th field replaced by spec
WithField(d, i, spec) ==
  PyDict([j \in DOMAIN d.items |->
            IF j = i THEN Item(d.items[j].key, spec) ELSE d.items[j]])

C8_OptionalWrapperAddsMark ==
  (calls > 0 /\ isinstance(schema_dict, "dict"))
    => \A i \in DOMAIN schema_dict.items :
         LET v == schema_dict.items[i].val
             S == get(v, S_type, PyNone)
             alone == generate_schema(WithField(schema_dict, i, S), schema_name, {}).outcome
             L0 == Lines(alone.text)
             L == Lines(outcome.text)
             line == Len(L0) - 1 - Len(NotNone(schema_dict.items))
                       + Len(NotNone(SubSeq(schema_dict.items, 1, i)))
         IN  (/\ IsOptionalWrapper(v)
              /\ IsPrimitive(S) \/ IsEnumDescriptor(S) \/ IsNestedObject(S)
              /\ alone.kind = "return")
               => /\ outcome.kind = "return"
                  /\ Len(L) = Len(L0)
                  /\ \A j \in DOMAIN L :
                        L[j] = IF j = line /\ truth(get(v, S_optional, PyNone))
                               THEN L0[j] \o <<"?">>
                               ELSE L0[j]

(***************************************************************************)
(* C9: a field specification whose runtime shape is not covered by the     *)
(* classification (a bare number or boolean, an empty list, a list with    *)
(* more than one element, an optional wrapper with a boolean flag and no   *)
(* "type" key), at the root or at any nesting depth, makes generate_schema *)
(* raise SchemaGenerationError whose schema_dict is the top-level input.   *)
(***************************************************************************)
IsMalformed(v) ==
  \/ v.k \in {"int", "bool"}
  \/ isinstance(v, "list") /\ Len(v.items) # 1
  \/ /\ isinstance(v, "dict")
     /\ contains(v, S_optional)
     /\ ~contains(v, S_type)
     /\ isinstance(get(v, S_optional, PyNone), "bool")

RECURSIVE HasMalformed(_)
\* some field of the mapping, or of a nested-object mapping under it, has a
\* malformed specification
HasMalformed(d) ==
  \E i \in DOMAIN d.items :
    LET v == d.items[i].val
        u == IF IsOptionalWrapper(v) THEN get(v, S_type, PyNone) ELSE v
    IN  \/ IsMalformed(u)
        \/ IsNestedObject(u) /\ HasMalformed(u)

C9_MalformedRaises ==
  (calls > 0 /\ isinstance(schema_dict, "dict") /\ HasMalformed(schema_dict))
    => outcome = Raised("SchemaGenerationError", schema_dict)

(***************************************************************************)
(* C10: generate_schema's result depends only on its two arguments: after  *)
(* any sequence of earlier calls on the same instance, successful or       *)
(* raising, a call returns or raises exactly what a fresh instance does    *)
(* for the same dictionary and root name.                                  *)
(***************************************************************************)
\* the outcome of the call on an instance straight from __init__
FreshInstanceOutcome(d, name) == generate_schema(d, name, {}).outcome

C10_IndependentOfEarlierCalls ==
  calls > 0 => outcome = FreshInstanceOutcome(schema_dict, schema_name)

C10_Witness ==
  /\ calls >= 2
  /\ outcome.kind = "return"
  /\ <<"R">> \in generated_classes
  /\ schema_name = <<"R">>
  /\ schema_dict.items # <<>>

(***************************************************************************)
(* Reading a response as the normalizer's contract describes it.           *)
(***************************************************************************)
\* the matches of a pattern in s that json.loads decodes, by position
DecodableMatches(pattern, s) ==
  {i \in DOMAIN findall(pattern, s, 1) : json_loads(findall(pattern, s, 1)[i]).exc = ""}

\* none of the four strategies decodes anything in s
NothingDecodes(s) ==
  /\ \A pattern \in {"json_fence", "fence", "brace"} : DecodableMatches(pattern, s) = {}
  /\ json_loads(strip(s)).exc # ""

\* parse_response has run on a string with a CompiledSchema at hand
ParsedText ==
  /\ response # NoResponse
  /\ isinstance(raw_response, "str")
  /\ compiled_schema.k = "CompiledSchema"

(***************************************************************************)
(* C11: for every JSON object document d, of any nesting depth and any     *)
(* number of nested objects, parse_response on exactly the serialization   *)
(* of d returns a dictionary equal to d.                                   *)
(***************************************************************************)
C11_DocumentRoundTrip ==
  \A d \in Documents :
    (ParsedText /\ raw_response = PyStr(dumps(d)))
      => (response.kind = "return" /\ response.val = d)

(***************************************************************************)
(* C12: the strategies are tried in the order json-tagged fenced block,    *)
(* untagged fenced block, brace-delimited substring, whole trimmed text;   *)
(* the extracted value is the decode of the first candidate that decodes,  *)
(* candidates of one strategy taken in text order, and a decodable         *)
(* candidate of an earlier strategy wins over one of a later strategy      *)
(* wherever they stand in the text.                                        *)
(***************************************************************************)
C12_FirstDecode(pattern, s) ==
  json_loads(findall(pattern, s, 1)[Least(DecodableMatches(pattern, s))]).val

C12_Expected(s) ==
  IF DecodableMatches("json_fence", s) # {} THEN C12_FirstDecode("json_fence", s)
  ELSE IF DecodableMatches("fence", s) # {} THEN C12_FirstDecode("fence", s)
  ELSE IF DecodableMatches("brace", s) # {} THEN C12_FirstDecode("brace", s)
  ELSE json_loads(strip(s)).val

C12_StrategyOrder ==
  (response # NoResponse /\ isinstance(raw_response, "str"))
    => json_data = C12_Expected(raw_response.s)

\* a decodable brace-delimited object stands before a decodable json-tagged
\* block, and the block wins
C12_Witness ==
  /\ response # NoResponse
  /\ raw_response = PyStr(Obj("c", "3") \o JsonBlock(Obj("a", "1")))
  /\ json_data = PyDict(<<Item(<<"a">>, PyInt(1))>>)

(***************************************************************************)
(* C13: whenever a strategy finds a syntactically valid object document    *)
(* (the empty object included), parse_response returns exactly that        *)
(* decoded document; the line-oriented fallback is used only when no       *)
(* strategy decodes anything.                                              *)
(***************************************************************************)
C13_DecodedObjectReturned ==
  (ParsedText /\ isinstance(json_data, "dict")) => response = ParsedData(json_data)

(***************************************************************************)
(* C14: when no strategy decodes anything, parse_response returns the      *)
(* line-oriented result: of each line holding a colon, the text before the *)
(* first colon trimmed and lowercased is the key and the text after it     *)
(* trimmed is the value; the pair is recorded iff both are non-empty, the  *)
(* last value of a key is the one kept, and values stay strings.           *)
(***************************************************************************)
C14_Key(line) == lower(strip(SubSeq(line, 1, FirstIndex(line, ":") - 1)))

C14_Value(line) == strip(SubSeq(line, FirstIndex(line, ":") + 1, Len(line)))

C14_Recorded(line) ==
  FirstIndex(line, ":") # 0 /\ C14_Key(line) # <<>> /\ C14_Value(line) # <<>>

C14_Pairs(s) ==
  LET L == split(s, "\n")
  IN  {<<C14_Key(L[i]), PyStr(C14_Value(L[i]))>> :
         i \in {i \in DOMAIN L :
                  /\ C14_Recorded(L[i])
                  /\ \A j \in (i + 1)..Len(L) :
                       ~(C14_Recorded(L[j]) /\ C14_Key(L[j]) = C14_Key(L[i]))}}

C14_LineOriented ==
  (ParsedText /\ NothingDecodes(raw_response.s))
    => /\ response.kind = "return"
       /\ isinstance(response.val, "dict")
       /\ {<<it.key, it.val>> : it \in {response.val.items[i] : i \in DOMAIN response.val.items}}
            = C14_Pairs(raw_response.s)
       /\ Cardinality(C14_Pairs(raw_response.s)) = Len(response.val.items)

\* two lines record the same key with different values; a line starts with
\* the colon and a line has nothing after it
C14_Witness ==
  /\ ParsedText
  /\ NothingDecodes(raw_response.s)
  /\ \E i, j \in DOMAIN split(raw_response.s, "\n") :
       LET L == split(raw_response.s, "\n")
       IN  /\ i < j
           /\ C14_Recorded(L[i]) /\ C14_Recorded(L[j])
           /\ C14_Key(L[i]) = C14_Key(L[j])
           /\ C14_Value(L[i]) # C14_Value(L[j])
  /\ Len(response.val.items) = 1

(***************************************************************************)
(* C15: for every text in which no strategy finds a decodable document,    *)
(* parse_response does not raise: it returns a dictionary, and the         *)
(* dictionary is empty when no line of the text holds a colon.             *)
(***************************************************************************)
C15_FallbackNeverRaises ==
  (ParsedText /\ NothingDecodes(raw_response.s))
    => /\ response.kind = "return"
       /\ isinstance(response.val, "dict")
       /\ (FirstIndex(raw_response.s, ":") = 0 => response.val = PyDict(<<>>))

\* a text of braces and words with no colon and nothing to decode
C15_Witness ==
  /\ ParsedText
  /\ NothingDecodes(raw_response.s)
  /\ FirstIndex(raw_response.s, ":") = 0
  /\ FirstIndex(raw_response.s, "{") # 0
  /\ response = ParsedData(PyDict(<<>>))

(***************************************************************************)
(* C16: parse_response returns a dictionary or raises ResponseParsingError *)
(* carrying the raw_response and schema_name it was called with; nothing   *)
(* else is returned or raised, whatever the response and the schema are.   *)
(***************************************************************************)
C16_DictOrResponseParsingError ==
  response # NoResponse
    => \/ response.kind = "return" /\ isinstance(response.val, "dict")
       \/ /\ response.kind = "raise"
          /\ response.exc = "ResponseParsingError"
          /\ response.raw_response = raw_response
          /\ response.schema_name = schema_name

\* the whole text decodes to a list, which _validate_against_schema rejects
C16_Witness ==
  /\ response.kind = "raise"
  /\ response.cause = "ValueError"
  /\ isinstance(json_data, "list")
  /\ response.raw_response = raw_response
  /\ response.schema_name = <<"A">> \o S_Class

(***************************************************************************)
(* C17: the outcome of parse_response does not depend on the structural    *)
(* metadata: with any other parsed_structure the call returns the same     *)
(* dictionary or raises as well, and a decoded document is returned as     *)
(* decoded, not filtered, coerced or validated against field types.        *)
(***************************************************************************)
C17_IndependentOfStructure ==
  (response # NoResponse /\ compiled_schema.k = "CompiledSchema")
    => /\ \A st \in Structures :
            parse_response(CompiledSchema(compiled_schema.schema_name,
                                          compiled_schema.baml_code, st),
                           raw_response, schema_name) = response
       /\ (isinstance(json_data, "dict") /\ truth(json_data))
            => response = ParsedData(json_data)

\* a document whose only key no class of the metadata declares, with a
\* value of a type the metadata does not speak of, comes back as decoded
C17_Witness ==
  /\ response.kind = "return"
  /\ compiled_schema.k = "CompiledSchema"
  /\ compiled_schema.parsed_structure # PyDict(<<>>)
  /\ json_data = PyDict(<<Item(<<"c">>, PyInt(3))>>)
  /\ response.val = json_data

(***************************************************************************)
(* C18: the structural metadata parsed from a text T that generate_schema  *)
(* returned equals the units of T: each class name defined in T maps to    *)
(* exactly the fields of its block (name, type, optional set iff the line  *)
(* ends in a question mark) and each enum name to its members in order.    *)
(***************************************************************************)
\* the name of a field line: what stands between the indent and the type
C18_FieldName(line) == SubSeq(line, 3, FirstIndex(SubSeq(line, 3, Len(line)), " ") + 1)

C18_Fields(body) ==
  PyDict([i \in DOMAIN body |->
            Item(C18_FieldName(body[i]),
                 PyDict(<<Item(S_type, PyStr(FieldType(body[i]))),
                          Item(S_optional, PyBool(EndsWith(body[i], <<"?">>)))>>))])

C18_Members(body) ==
  PyDict(<<Item(S__type, PyStr(S_enum)),
           Item(S_values,
                PyList([i \in DOMAIN body |-> PyStr(SubSeq(body[i], 3, Len(body[i])))]))>>)

C18_MetadataEqualsUnits ==
  compiled_schema.k = "CompiledSchema"
    => \A j \in DOMAIN Blocks(outcome.text) :
         LET b == Blocks(outcome.text)[j]
             same == {n \in DOMAIN Blocks(outcome.text) : Blocks(outcome.text)[n].name = b.name}
         IN  same = {j}
               => /\ contains(compiled_schema.parsed_structure, b.name)
                  /\ get(compiled_schema.parsed_structure, b.name, PyNone)
                       = IF b.kind = "class" THEN C18_Fields(b.body) ELSE C18_Members(b.body)

(***************************************************************************)
(* C19: in call_with_schema schema generation comes before every external  *)
(* step: until generate_schema was called, and ever after it raised, no    *)
(* temporary project directory exists or existed, baml-cli was never run   *)
(* and no generated function was invoked; when generate_schema raised, the *)
(* caller receives that SchemaGenerationError and no data.                 *)
(***************************************************************************)
C19_NoExternalStep == project_dir = "none" /\ cli_runs = 0 /\ ~invoked

C19_GenerationFirst ==
  /\ calls = 0 => C19_NoExternalStep
  /\ outcome.kind = "raise"
       => /\ C19_NoExternalStep
          /\ result.kind \notin {"returning", "return"}
          /\ pc = "done"
               => /\ result.kind = "raise"
                  /\ result.data = PyNone
                  /\ result.exception =
                       Raise("SchemaGenerationError", TRUE, "schema_generation",
                             "generate_schema", <<>>, NoException)

\* a call whose mapping holds a malformed field has ended in the caller
C19_Witness ==
  /\ pc = "done"
  /\ isinstance(schema_dict, "dict")
  /\ outcome.kind = "raise"
  /\ result.kind = "raise"

(***************************************************************************)
(* C20: every exception leaving call_with_schema is a DynamicBAMLError; an *)
(* exception raised at a step that is a DynamicBAMLError leaves the call   *)
(* as the same object; any other is replaced by a DynamicBAMLError with    *)
(* error_type "unknown" and message "Unexpected error: " followed by the   *)
(* original message, chained to the original.                              *)
(***************************************************************************)
RECURSIVE C20_RaisedBefore(_)
\* e and the exceptions that were in flight when e was raised
C20_RaisedBefore(e) ==
  {e} \cup (IF e.context = <<>> \/ e.cause # <<>> THEN {}
            ELSE C20_RaisedBefore(e.context[1]))

\* the exceptions raised at the steps of the call that raised x
C20_Raised(x) ==
  IF x.origin = "call_with_schema" THEN C20_RaisedBefore(x.cause[1])
  ELSE C20_RaisedBefore(x)

C20_SameObjectOrUnexpected ==
  (pc = "done" /\ result.kind = "raise")
    => LET x == result.exception
       IN  /\ x.dynamic
           /\ \A e \in C20_Raised(x) :
                IF e.dynamic THEN x = e
                ELSE /\ x.type = "DynamicBAMLError"
                     /\ x.error_type = "unknown"
                     /\ x.cause # <<>>
                     /\ x.message = <<"Unexpected error: ">> \o x.cause[1].message

(***************************************************************************)
(* C26: the output of a successful generate_schema call is closed under    *)
(* reference: every type name ending in Class or Enum on a field line,     *)
(* with or without `?`, is defined by a class block, respectively an enum  *)
(* block, of that name in the same output.                                 *)
(***************************************************************************)
C26_Defined(B, kind, name) ==
  \E k \in DOMAIN B : B[k].kind = kind /\ B[k].name = name

C26_ClosedUnderReference ==
  (calls > 0 /\ outcome.kind = "return")
    => LET B == Blocks(outcome.text)
       IN  \A j \in DOMAIN B :
             B[j].kind = "class"
               => \A l \in DOMAIN B[j].body :
                    /\ EndsWith(FieldType(B[j].body[l]), S_Class)
                         => C26_Defined(B, "class", FieldType(B[j].body[l]))
                    /\ EndsWith(FieldType(B[j].body[l]), S_Enum)
                         => C26_Defined(B, "enum", FieldType(B[j].body[l]))

(***************************************************************************)
(* C27: the two passes over a field agree: every block of the output other *)
(* than the root class is referenced, under its own name, by the type of a *)
(* field line of some class block, so no unreferenced block is produced.   *)
(***************************************************************************)
C27_Referenced(B, name) ==
  \E k \in DOMAIN B :
    /\ B[k].kind = "class"
    /\ \E l \in DOMAIN B[k].body : FieldType(B[k].body[l]) = name

C27_PassesAgree ==
  (calls > 0 /\ outcome.kind = "return")
    => LET B == Blocks(outcome.text)
       IN  \A j \in DOMAIN B :
             (B[j].kind # "class" \/ B[j].name # schema_name)
               => C27_Referenced(B, B[j].name)

(***************************************************************************)
(* C24: when nested-object fields of one generate_schema call derive the   *)
(* same class name with different shapes, or one derives the root's name,  *)
(* the call returns; the output holds exactly one class block of each      *)
(* derived name, carrying the shape the depth-first traversal in           *)
(* declaration order reached first under that name (the root's own shape   *)
(* for the root's name), and the line of every nested-object field of an   *)
(* emitted shape references the derived name.                              *)
(***************************************************************************)
C24_Unwrapped(v) == IF IsOptionalWrapper(v) THEN get(v, S_type, PyNone) ELSE v

C24_DerivedName(key) == title(key) \o S_Class

RECURSIVE C24_WellFormed(_)
\* the fields are None, primitives, nested objects of such fields, and
\* optional wrappers around primitives and such nested objects
C24_WellFormed(d) ==
  \A i \in DOMAIN d.items :
    \/ d.items[i].val = PyNone
    \/ IsPrimitive(C24_Unwrapped(d.items[i].val))
    \/ /\ IsNestedObject(C24_Unwrapped(d.items[i].val))
       /\ C24_WellFormed(C24_Unwrapped(d.items[i].val))

C24_FirstUnder(seen, name) == {i \in DOMAIN seen : seen[i].name = name}

RECURSIVE C24_Visit(_, _, _), C24_VisitFields(_, _, _)
\* the traversal reaches shape d under a name: a name reached before keeps
\* its first shape and d is not descended into
C24_Visit(d, name, acc) ==
  IF C24_FirstUnder(acc.seen, name) = {}
  THEN C24_VisitFields(d.items, 1,
                       [acc EXCEPT !.seen = Append(@, [name |-> name, shape |-> d])])
  ELSE [acc EXCEPT !.collided =
          @ \/ name = acc.seen[1].name
            \/ \E i \in C24_FirstUnder(acc.seen, name) : acc.seen[i].shape # d]

C24_VisitFields(items, i, acc) ==
  IF i > Len(items) THEN acc
  ELSE C24_VisitFields(items, i + 1,
         IF IsNestedObject(C24_Unwrapped(items[i].val))
         THEN C24_Visit(C24_Unwrapped(items[i].val), C24_DerivedName(items[i].key), acc)
         ELSE acc)

C24_Traversal(d, name) == C24_Visit(d, name, [seen |-> <<>>, collided |-> FALSE])

\* the field line the shape's field stands for
C24_Line(item) ==
  IF IsNestedObject(C24_Unwrapped(item.val))
  THEN <<" ", " ">> \o item.key \o <<" ">> \o C24_DerivedName(item.key)
  ELSE C6_FieldLine(Item(item.key, C24_Unwrapped(item.val)))

C24_Body(shape) ==
  [i \in DOMAIN NotNone(shape.items) |->
     C24_Line(NotNone(shape.items)[i])
       \o (IF IsOptionalWrapper(NotNone(shape.items)[i].val)
              /\ truth(get(NotNone(shape.items)[i].val, S_optional, PyNone))
           THEN <<"?">> ELSE <<>>)]

C24_ClassBlocks(text) ==
  {[name |-> Blocks(text)[j].name, body |-> Blocks(text)[j].body] :
     j \in {j \in DOMAIN Blocks(text) : Blocks(text)[j].kind = "class"}}

C24_FirstShapeKept ==
  (/\ calls > 0
   /\ isinstance(schema_dict, "dict")
   /\ C24_WellFormed(schema_dict)
   /\ C24_Traversal(schema_dict, schema_name).collided)
    => /\ outcome.kind = "return"
       /\ Len(Blocks(outcome.text)) = Len(C24_Traversal(schema_dict, schema_name).seen)
       /\ C24_ClassBlocks(outcome.text)
            = {[name |-> v.name, body |-> C24_Body(v.shape)] :
                 v \in {C24_Traversal(schema_dict, schema_name).seen[i] :
                          i \in DOMAIN C24_Traversal(schema_dict, schema_name).seen}}

\* field a holds a nested object whose own field a holds a different
\* nested object: the second AClass is dropped and its line kept
C24_Witness ==
  /\ calls > 0
  /\ schema_name = <<"R">>
  /\ schema_dict.k = "dict"
  /\ C24_WellFormed(schema_dict)
  /\ C24_Traversal(schema_dict, schema_name).collided
  /\ Len(C24_Traversal(schema_dict, schema_name).seen) = 2
  /\ outcome.kind = "return"
  /\ Len(Blocks(outcome.text)) = 2

\* a nested-object field derives the root's name
C24_RootWitness ==
  /\ calls > 0
  /\ schema_name = <<"A">> \o S_Class
  /\ schema_dict.k = "dict"
  /\ C24_WellFormed(schema_dict)
  /\ C24_Traversal(schema_dict, schema_name).collided
  /\ outcome.kind = "return"
  /\ Len(Blocks(outcome.text)) = 1

(***************************************************************************)
(* C25: after any sequence of compile_schema calls on one BAMLExecutor,    *)
(* compiled_schemas maps exactly the names compiled successfully, each to  *)
(* the CompiledSchema returned by the most recent successful call under    *)
(* that name, whose schema_name and baml_code are that call's arguments; a *)
(* call that fails raises BAMLCompilationError and leaves no trace in the  *)
(* cache.                                                                  *)
(***************************************************************************)
C25_Successes(name) ==
  {i \in DOMAIN compile_calls :
     compile_calls[i].schema_name = name /\ compile_calls[i].exc = ""}

C25_MostRecent(name) ==
  compile_calls[CHOOSE i \in C25_Successes(name) : \A j \in C25_Successes(name) : j <= i]

C25_CacheIsMostRecentSuccess ==
  /\ DOMAIN compiled_schemas = {name \in SchemaNames : C25_Successes(name) # {}}
  /\ \A name \in DOMAIN compiled_schemas :
       /\ compiled_schemas[name] = C25_MostRecent(name).val
       /\ compiled_schemas[name].k = "CompiledSchema"
       /\ compiled_schemas[name].schema_name = name
       /\ compiled_schemas[name].baml_code = C25_MostRecent(name).baml_code
  /\ \A i \in DOMAIN compile_calls :
       compile_calls[i].exc \in {"", "BAMLCompilationError"}

\* R was compiled twice from different texts, AClass once, and the last
\* call, under R, raised
C25_Witness ==
  /\ Len(compile_calls) = 3
  /\ compile_calls[1].schema_name = <<"R">> /\ compile_calls[1].exc = ""
  /\ compile_calls[2].schema_name = <<"R">> /\ compile_calls[2].exc = ""
  /\ compile_calls[1].baml_code # compile_calls[2].baml_code
  /\ compile_calls[3].schema_name = <<"R">>
  /\ compile_calls[3].exc = "BAMLCompilationError"
  /\ compiled_schemas[<<"R">>].baml_code = compile_calls[2].baml_code

\* two names are cached at once
C25_TwoNames ==
  /\ Len(compile_calls) = 2
  /\ DOMAIN compiled_schemas = SchemaNames

(***************************************************************************)
(* C21: call_with_schema_safe never raises: it ends by returning a         *)
(* CallResult, which is {success: True, data: d} exactly when              *)
(* call_with_schema returned d, and otherwise has the keys success (False),*)
(* error and error_type and no data key, error_type being that of the      *)
(* DynamicBAMLError raised and "unknown" for any other exception.          *)
(***************************************************************************)
C21_Keys(d) == {d.items[i].key : i \in DOMAIN d.items}

C21_SafeNeverRaises ==
  /\ (entry = "call_with_schema_safe" /\ pc = "done") => ENABLED SafeReturn
  /\ pc = "returned"
       => /\ isinstance(call_result, "dict")
          /\ IF result.kind = "return"
             THEN call_result = PyDict(<<Item(S_success, PyBool(TRUE)),
                                         Item(S_data, result.data)>>)
             ELSE /\ result.kind = "raise"
                  /\ C21_Keys(call_result) = {S_success, S_error, S_error_type}
                  /\ get(call_result, S_success, PyNone) = PyBool(FALSE)
                  /\ get(call_result, S_error, PyNone) = PyStr(result.exception.message)
                  /\ get(call_result, S_error_type, PyNone)
                       = PyStr(<<IF result.exception.dynamic
                                 THEN result.exception.error_type ELSE "unknown">>)

\* the import of the generated client failed and the caller of
\* call_with_schema_safe holds a CallResult of type baml_compilation
C21_Witness ==
  /\ pc = "returned"
  /\ result.kind = "raise"
  /\ result.exception.origin = "import"
  /\ get(call_result, S_error_type, PyNone) = PyStr(<<"baml_compilation">>)
  /\ ~contains(call_result, S_data)

\* the generated function returned and the CallResult carries its data
C21_SuccessWitness ==
  /\ pc = "returned"
  /\ result.kind = "return"
  /\ get(call_result, S_data, PyNone) = PyDict(<<Item(<<"a">>, PyInt(1))>>)

(***************************************************************************)
(* C22: model names are passed through: the client block the extraction    *)
(* function is bound to is written into clients.baml with exactly          *)
(* options["model"] when a model is given, and with the default model of   *)
(* that client when none is given.                                         *)
(***************************************************************************)
C22_ModelPassedThrough ==
  clients_baml # <<>>
    => clients_baml[client_config]
         = IF contains(options, S_model) THEN get(options, S_model, PyNone).s
           ELSE default_model(client_config)

(***************************************************************************)
(* C23: on every path the project directory __enter__ created is gone when *)
(* control is back with the caller, unless shutil.rmtree itself raised, in *)
(* which case the caller receives the DynamicBAMLError that wraps the      *)
(* OSError of rmtree: rmtree is called on every path.                      *)
(***************************************************************************)
C23_Returned == pc \in {"done", "returned"} /\ project_dir # "none"

C23_RmtreeRaised ==
  /\ result.kind = "raise"
  /\ result.exception.origin = "call_with_schema"
  /\ result.exception.cause[1].origin = "rmtree"

C23_BodyWitness ==
  /\ C23_Returned
  /\ result.exception.type = "LLMProviderError"
  /\ project_dir = "removed"

(***************************************************************************)
(* C29: _TemporaryBAMLProject restores the import state on every path:     *)
(* when control is back with the caller, sys.path holds no entry for the   *)
(* project directory and sys.modules holds no baml_client module.          *)
(***************************************************************************)
C29_ImportStateRestored ==
  pc \in {"done", "returned"} => (sys_path = <<>> /\ sys_modules = {})

(***************************************************************************)
(* C28: generate_schema terminates on every input dictionary, one that     *)
(* contains itself directly, through other dictionaries or through         *)
(* optional wrappers included: it returns or raises SchemaGenerationError; *)
(* a class name already in generated_classes is not expanded again, so the *)
(* number of _generate_class expansions never exceeds the number of        *)
(* distinct derived names (the root name and one name per field name).     *)
(***************************************************************************)
C28_DerivedNames ==
  {schema_name}
    \cup UNION {{title(heap[id][i].key) \o S_Class : i \in DOMAIN heap[id]} :
                   id \in HeapIds}

C28_Ended == calls = 1 /\ stack = <<>> /\ outcome.kind \in {"return", "raise"}

C28_Terminates ==
  /\ [](/\ expansions <= Cardinality(C28_DerivedNames)
        /\ expansions = Cardinality(generated_classes)
        /\ outcome.kind = "raise" => outcome.exc = "SchemaGenerationError")
  /\ <>C28_Ended

\* the root dictionary holds itself under a field and the call returned
C28_Witness ==
  /\ C28_Ended
  /\ outcome.kind = "return"
  /\ \E i \in DOMAIN heap[1] : heap[1][i].val = Ref(1) /\ heap[1][i].key = <<"a">>
  /\ expansions = 2

\* the root holds itself through another dictionary that is an optional
\* wrapper
C28_WrapperWitness ==
  /\ C28_Ended
  /\ outcome.kind = "return"
  /\ heap[1] = <<Item(<<"a">>, Ref(2))>>
  /\ heap[2] = <<Item(S_type, Ref(1)), Item(S_optional, PyBool(TRUE))>>
  /\ outcome.text = join(NL, << <<"c","l","a","s","s"," ","A","C","l","a","s","s"," ","{">>,
                                  <<" "," ","a"," ","A","C","l","a","s","s","?">>,
                                  <<"}">>, <<>>,
                                  <<"c","l","a","s","s"," ","R"," ","{">>,
                                  <<" "," ","a"," ","A","C","l","a","s","s","?">>,
                                  <<"}">> >>)

(***************************************************************************)
(* C30: when two call_with_schema invocations overlap in two threads, under *)
(* every interleaving each invocation imports the client generated from    *)
(* its own schema and invokes its own extraction function, and while it is *)
(* in the body of the with statement its sys.path entry and the            *)
(* baml_client modules it imported are still in place.                     *)
(***************************************************************************)
C30_ThreadsIsolated ==
  \A t \in Threads :
    /\ threads[t].pc = "body" =>
         /\ threads[t].client = t
         /\ \E i \in DOMAIN sys_path : sys_path[i] = t
         /\ Module("baml_client", threads[t].client) \in sys_modules
         /\ Module("baml_client.sync_client", threads[t].client) \in sys_modules
    /\ threads[t].pc = "done" => threads[t].invoked = t

====
